---- MODULE Spec2Model ----
(***************************************************************************)
(* State-machine model of ScrollTrackerServiceClass                        *)
(* (src/src/components/PageTracker.tsx, lines 642-850) and of the          *)
(* consumers that subscribe to it.                                         *)
(*                                                                         *)
(* Units.  A ratio or a progress argument is written in hundredths (the    *)
(* integer 55 is the JavaScript number 0.55, i.e. the double nearest to    *)
(* 55/100).  viewportProgress is kept in tenths (Math.round(x * 10), the   *)
(* value before the final "/ 10") and documentProgress in hundredths       *)
(* (Math.round(x * 100), the value before the final "/ 100"); k/10 and     *)
(* k/100 are distinct doubles for distinct integers k, so === on the two   *)
(* representations agree.  The arithmetic in between is IEEE-754 binary64, *)
(* modelled bit by bit below.                                              *)
(***************************************************************************)
EXTENDS Integers, Sequences, FiniteSets, TLC

(***************************************************************************)
(* Bounds of the model.                                                    *)
(***************************************************************************)
MaxPage == 2
MaxDistance == 1
NListeners == 2
NObservers == 2
NLoads == 3
NCallers == 3

(***************************************************************************)
(* IEEE-754 binary64 arithmetic on the values the tracker computes.  A     *)
(* non-zero number is [neg, bits, exp]: bits is the 53-bit significand,    *)
(* most significant bit first (always 1), and the value is                 *)
(* 1.b2b3...b53 * 2^exp.                                                   *)
(***************************************************************************)
MantissaBits == 53

Abs(x) == IF x < 0 THEN -x ELSE x

Zero == [neg |-> FALSE, zero |-> TRUE, bits |-> <<>>, exp |-> 0]

RECURSIVE NormUp(_, _, _)
NormUp(a, b, e) == IF a >= b THEN <<a, b, e>> ELSE NormUp(2 * a, b, e - 1)

RECURSIVE NormDown(_, _, _)
NormDown(a, b, e) == IF a < 2 * b THEN <<a, b, e>> ELSE NormDown(a, 2 * b, e + 1)

\* The 8 bits of a digit below 256, most significant first.
Byte(d) == [i \in 1..8 |-> (d \div (2 ^ (8 - i))) % 2]

\* Long division, eight quotient bits a step: the bits of r / b after the
\* binary point (r < b), and whether a remainder is left.
RECURSIVE LongDiv(_, _, _, _)
LongDiv(r, b, n, acc) ==
  IF n = 0 THEN [bits |-> acc, sticky |-> r # 0]
  ELSE LongDiv((256 * r) % b, b, n - 1, acc \o Byte((256 * r) \div b))

\* bits + 1, the addition starting at position i (the last one).
Increment(bits, i) ==
  IF \A j \in 1..i : bits[j] = 1
  THEN <<1>> \o [j \in 1..Len(bits) |-> IF j <= i THEN 0 ELSE bits[j]]
  ELSE LET z == CHOOSE j \in 1..i : bits[j] = 0 /\ \A k \in (j + 1)..i : bits[k] = 1
       IN [j \in 1..Len(bits) |-> IF j = z THEN 1 ELSE IF j > z /\ j <= i THEN 0 ELSE bits[j]]

\* Round a significand of more than 53 bits to nearest, ties to even.
RoundToNearestEven(neg, bits, exp, sticky) ==
  LET m == SubSeq(bits, 1, MantissaBits)
      guard == IF Len(bits) > MantissaBits THEN bits[MantissaBits + 1] ELSE 0
      rest == sticky \/ \E i \in (MantissaBits + 2)..Len(bits) : bits[i] = 1
      up == guard = 1 /\ (rest \/ m[MantissaBits] = 1)
      inc == Increment(m, MantissaBits)
  IN IF ~up THEN [neg |-> neg, zero |-> FALSE, bits |-> m, exp |-> exp]
     ELSE IF Len(inc) > MantissaBits
          THEN [neg |-> neg, zero |-> FALSE,
                bits |-> SubSeq(inc, 1, MantissaBits), exp |-> exp + 1]
          ELSE [neg |-> neg, zero |-> FALSE, bits |-> inc, exp |-> exp]

\* The JavaScript quotient x / y of two integers (y # 0).
NumDiv(x, y) ==
  IF x = 0 THEN Zero
  ELSE LET up == NormUp(Abs(x), Abs(y), 0)
           n == NormDown(up[1], up[2], up[3])
           q == LongDiv(n[1] - n[2], n[2], 7, <<1>>)
       IN RoundToNearestEven((x < 0) # (y < 0), q.bits, n[3], q.sticky)

RECURSIVE IntBits(_)
IntBits(k) == IF k = 0 THEN <<>> ELSE Append(IntBits(k \div 2), k % 2)

RECURSIVE BitsToInt(_, _)
BitsToInt(bits, n) == IF n <= 0 THEN 0 ELSE 2 * BitsToInt(bits, n - 1) + bits[n]

RECURSIVE StripZeros(_)
StripZeros(bits) ==
  IF bits # <<>> /\ bits[1] = 0 THEN StripZeros(Tail(bits)) ELSE bits

\* bits * k, eight bits a step from the least significant end (Len(bits) is
\* a multiple of 8).
RECURSIVE MulBits(_, _, _, _, _)
MulBits(bits, i, k, carry, acc) ==
  IF i = 0 THEN IntBits(carry) \o acc
  ELSE LET d == BitsToInt(SubSeq(bits, i - 7, i), 8) * k + carry
       IN MulBits(bits, i - 8, k, d \div 256, Byte(d % 256) \o acc)

\* The JavaScript product x * k of a number and a small integer.
NumMul(x, k) ==
  IF x.zero \/ k = 0 THEN Zero
  ELSE LET p == StripZeros(MulBits(<<0, 0, 0>> \o x.bits, 56, Abs(k), 0, <<>>))
       IN RoundToNearestEven(x.neg # (k < 0), p,
                             x.exp + (Len(p) - Len(x.bits)), FALSE)

FracFrom(x, i) == \E j \in i..Len(x.bits) : j >= 1 /\ x.bits[j] = 1

\* Math.round: the nearest integer, a tie going towards +Infinity.
MathRound(x) ==
  IF x.zero \/ x.exp < -1 THEN 0
  ELSE LET int == BitsToInt(x.bits, x.exp + 1)
           half == x.bits[x.exp + 2] = 1
       IN IF ~x.neg THEN int + (IF half THEN 1 ELSE 0)
          ELSE -(int + (IF half /\ FracFrom(x, x.exp + 3) THEN 1 ELSE 0))

\* Math.floor.
MathFloor(x) ==
  IF x.zero THEN 0
  ELSE IF x.exp < 0 THEN (IF x.neg THEN -1 ELSE 0)
  ELSE LET int == BitsToInt(x.bits, x.exp + 1)
       IN IF ~x.neg THEN int
          ELSE -(int + (IF FracFrom(x, x.exp + 2) THEN 1 ELSE 0))

\* Math.max(0, Math.min(x, 1)) on a number.
Clamp01(x) ==
  IF x.zero \/ x.neg THEN Zero
  ELSE IF x.exp >= 0 THEN NumDiv(1, 1)
  ELSE x

Min(a, b) == IF a < b THEN a ELSE b
Max(a, b) == IF a > b THEN a ELSE b

(***************************************************************************)
(* State of the tracker and of its consumers.                              *)
(*                                                                         *)
(* CurrentView objects live in a heap so that "copy" and "reference" are   *)
(* different things: currentView, windowView (window.Engram.currentView)   *)
(* and held[c] (the view object consumer c kept) are object identifiers.   *)
(* After every step the live objects are renumbered in the order           *)
(* currentView, windowView, held[1], held[2], ... so that the numbering    *)
(* carries no history.                                                     *)
(***************************************************************************)
VARIABLES
  pageVisibilities,  \* Map<number, {ratio, centerDistance}> in insertion order
  totalPages,        \* private totalPages
  initialized,       \* private initialized
  listeners,         \* Set<ViewChangeListener> in insertion order
  heap,              \* object identifier -> CurrentView object
  currentView,       \* this.currentView (an object identifier)
  windowView,        \* window.Engram.currentView (an object identifier or Null)
  held,              \* consumer -> the view object it kept (or Null)
  keepers,           \* the consumers whose callback keeps the object it is given
  disposers,         \* the listeners for which subscribe has returned a disposer
  calls,             \* listener -> the views its callback received in the last operation
  synced,            \* number of writes of window.Engram.currentView in the last operation
  op,                \* the last operation and its arguments
  repeated,          \* the last operation is a report or a setView that repeats the one before it
  prevCalls,         \* if so, the number of callback invocations that operation made
  staleRead,         \* a callback of the last operation ran while window.Engram.currentView
                     \* was undefined or differed from the view the callback was given
  hook,              \* useStorage: the state and refs of one instance of the hook
  store,             \* StorageService: the stored currentPage and the writes under way
  burst,             \* the updatePage calls and write starts since the last quiet period
  pageTracker,       \* PageTracker: props, state and refs of one instance of the component
  viewer,            \* PDFViewer: storage state, localStorage and the runs of the scroll effect
  observers,         \* PageObserver: the instances, their props, entry and effects to run
  hybridLoader,      \* HybridLoaderService: its state and the loads under way
  storageService,    \* StorageService: db, initPromise and the init calls under way
  recording,         \* whether the specification keeps prior
  prior              \* if the last operation is a report that follows a report or an
                     \* unregisterPage: that operation's name, the page it unregistered
                     \* and currentView as the report found it

vars == <<pageVisibilities, totalPages, initialized, listeners, heap, currentView,
          windowView, held, keepers, disposers, calls, synced, op, repeated, prevCalls,
          staleRead, recording, prior, hook, store, burst, pageTracker, viewer,
          observers, hybridLoader, storageService>>

Listeners == 1..NListeners
Infinity == MaxDistance + 1
Null == 0
Free == [pageNumber |-> 0, viewportProgress |-> 0, documentProgress |-> 0, totalPages |-> 0]
Oids == 1..(NListeners + 5)

CurrentView(page, vp, dp, total) ==
  [pageNumber |-> page, viewportProgress |-> vp, documentProgress |-> dp, totalPages |-> total]

InitialView == CurrentView(1, 0, 0, 1)
InitialTotalPages == 4

NoCalls == [l \in Listeners |-> <<>>]

RECURSIVE SumLen(_, _)
SumLen(c, n) == IF n = 0 THEN 0 ELSE Len(c[n]) + SumLen(c, n - 1)

Range(s) == {s[i] : i \in DOMAIN s}

(***************************************************************************)
(* Object heap.                                                            *)
(***************************************************************************)
Roots(cur, win, hd) == <<cur, win>> \o [i \in 1..NListeners |-> hd[i]]

Live == Range(Roots(currentView, windowView, held)) \ {Null}

Fresh(used) == CHOOSE o \in Oids \ used : \A o2 \in Oids \ used : o <= o2

\* Renumber the objects reachable from the roots, drop the others.
Canon(h, rs) ==
  LET firsts == {i \in DOMAIN rs : rs[i] # Null /\ \A j \in 1..(i - 1) : rs[j] # rs[i]}
      rank == [i \in firsts |-> Cardinality({j \in firsts : j <= i})]
  IN [heap |-> [n \in Oids |-> IF \E i \in firsts : rank[i] = n
                               THEN h[rs[CHOOSE i \in firsts : rank[i] = n]]
                               ELSE Free],
      roots |-> [i \in DOMAIN rs |-> IF rs[i] = Null THEN Null
                                     ELSE rank[CHOOSE j \in firsts : rs[j] = rs[i]]]]

Commit(h, cur, win, hd) ==
  LET c == Canon(h, Roots(cur, win, hd))
  IN /\ heap' = c.heap
     /\ currentView' = c.roots[1]
     /\ windowView' = c.roots[2]
     /\ held' = [i \in Listeners |-> c.roots[i + 2]]

\* getCurrentView returning this.currentView itself, not a copy.
GetCurrentViewByReference(h, cur, used) == [heap |-> h, ref |-> cur]

\* getCurrentView(): { ...this.currentView }, a new object with the same fields.
GetCurrentView(h, cur, used) ==
  LET o == Fresh(used)
  IN [heap |-> [h EXCEPT ![o] = h[cur]], ref |-> o]

\* The callbacks that ran (c) were given a view other than the one that
\* window.Engram.currentView (win) held while they ran.
SnapshotStale(h, win, c) ==
  \E l \in Listeners : \E i \in DOMAIN c[l] : win = Null \/ h[win] # c[l][i]

NoPrior == [name |-> "", unregistered |-> 0, view |-> Free]

\* const SAVE_DEBOUNCE_MS = 500
SAVE_DEBOUNCE_MS == 500

\* useState / useRef initial values of useStorage, before the component mounts.
InitialHook ==
  [mounted |-> "no",            \* "no", "yes", "gone"
   source |-> 1,                \* the source option; a document has the id of its source
   initSource |-> Null,         \* the source the last initialize() was started for
   cleanup |-> FALSE,           \* the last run of the init effect returned its cleanup
   initialize |-> "idle",       \* the async initialize(): "idle", "running", "cancelled", "done", "failed"
   initializedRef |-> FALSE,
   documentId |-> Null,
   timers |-> <<>>,             \* pending setTimeout callbacks [page, remaining, current, stale, burst]
   lastSavedPageRef |-> Null]

InitialStore == [currentPage |-> Null, writes |-> <<>>]

InitialBurst ==
  [lastCall |-> Null,              \* page of the last updatePage call with a documentId
   sinceCall |-> SAVE_DEBOUNCE_MS, \* time since that call, up to the debounce delay
   id |-> 0,                       \* alternates from one burst to the next
   started |-> 0,                  \* writes started by timers of this burst
   cancelled |-> FALSE]            \* a cleanup has cleared the pending save

\* const maxPages = 4; // We know this PDF has 4 pages
maxPages == 4

\* const pageHeightEstimate = useRef(800)
pageHeightEstimate == 800

\* useState / useRef initial values and props of PageTracker before storage and
\* the scroll capability are ready.
InitialPageTracker ==
  [storageReady |-> FALSE,      \* prop
   initialPage |-> Null,        \* prop (undefined)
   scrollCapability |-> Null,   \* identity of the object useScrollCapability provides
   totalPages |-> 0,            \* what scrollCapability.getTotalPages() returns
   isReady |-> FALSE,
   hasRestoredRef |-> FALSE,
   timer |-> Null,              \* the page the pending 200 ms timer will scroll to
   restores |-> 0,              \* scrollToPage calls made by the restore effect
   target |-> Null]             \* pageNumber of the last such call

\* useState initial values of PDFViewer; effects holds the runs of the scroll
\* tracking effect that still have a timer pending or a listener installed.
InitialViewer ==
  [storageReady |-> FALSE,
   storedPage |-> Null,
   initialPage |-> Null,
   localStorage |-> Null,       \* the item 'engram-pdf-page'
   effects |-> <<>>,
   unmounted |-> FALSE,         \* the component has been unmounted
   scrollTop |-> 0,             \* of the scroll container
   restores |-> 0,              \* scrollTo calls made to restore the position
   target |-> 0]                \* top of the last such call

Observers == 1..NObservers

\* A PageObserver that is not mounted.
NoObserver ==
  [mounted |-> FALSE, pageNumber |-> 0, entry |-> <<>>, pending |-> <<>>,
   unregister |-> 0]

\* The effect at the head of an observer's queue has run.
Settle(obs) ==
  [o \in DOMAIN obs |-> IF obs[o].pending = <<>> THEN obs[o]
                        ELSE [obs[o] EXCEPT !.pending = Tail(@)]]

Loads == 1..NLoads

\* private state: HybridLoaderState = { isLoading: false, error: null, context: null }
InitialLoader ==
  [isLoading |-> FALSE,
   error |-> FALSE,             \* an error message is set
   context |-> Null,            \* the load whose document the context holds
   loads |-> [l \in Loads |-> "idle"]]   \* "idle", "running", "done", "failed"

Callers == 1..NCallers

\* private db = null; private initPromise = null
InitialStorageService ==
  [db |-> FALSE,                \* this.db is set
   initPromise |-> "none",      \* "none", "pending", "resolved", "rejected"
   opens |-> 0,                 \* indexedDB.open calls
   inits |-> [c \in Callers |-> "idle"]] \* "idle", "waiting", "resolved", "rejected"

Log(o, c, s, stale) ==
  /\ op' = o
  /\ UNCHANGED <<hook, store, burst, pageTracker, viewer, hybridLoader, storageService>>
  /\ observers' = Settle(observers)
  /\ recording' = recording
  /\ prior' = IF recording /\ o.name = "reportPageVisibility"
                 /\ op.name \in {"reportPageVisibility", "unregisterPage"}
              THEN [name |-> op.name,
                    unregistered |-> IF op.name = "unregisterPage" THEN op.args[1] ELSE 0,
                    view |-> heap[currentView]]
              ELSE NoPrior
  /\ calls' = c
  /\ synced' = s
  /\ staleRead' = stale
  /\ repeated' = (o.name \in {"reportPageVisibility", "setView"} /\ o = op)
  /\ prevCalls' = IF o.name \in {"reportPageVisibility", "setView"} /\ o = op
                  THEN SumLen(calls, NListeners) ELSE 0

\* The fields of this.currentView.
View == heap[currentView]

Init ==
  /\ pageVisibilities = <<>>
  /\ totalPages = InitialTotalPages
  /\ initialized = FALSE
  /\ listeners = <<>>
  /\ heap = [n \in Oids |-> IF n = 1 THEN InitialView ELSE Free]
  /\ currentView = 1
  /\ windowView = Null
  /\ held = [l \in Listeners |-> Null]
  /\ disposers = {}
  /\ calls = NoCalls
  /\ synced = 0
  /\ op = [name |-> "new", args |-> <<>>]
  /\ repeated = FALSE
  /\ prevCalls = 0
  /\ staleRead = FALSE
  /\ prior = NoPrior
  /\ hook = InitialHook
  /\ store = InitialStore
  /\ burst = InitialBurst
  /\ pageTracker = InitialPageTracker
  /\ viewer = InitialViewer
  /\ observers = [o \in Observers |-> NoObserver]
  /\ hybridLoader = InitialLoader
  /\ storageService = InitialStorageService


(***************************************************************************)
(* The pageVisibilities map: a JavaScript Map iterates in insertion order, *)
(* set() on a present key keeps the key's position, delete() removes it.   *)
(***************************************************************************)
MapSet(m, page, vis) ==
  IF \E i \in DOMAIN m : m[i].page = page
  THEN [i \in DOMAIN m |-> IF m[i].page = page
                           THEN [page |-> page, ratio |-> vis.ratio,
                                 centerDistance |-> vis.centerDistance]
                           ELSE m[i]]
  ELSE Append(m, [page |-> page, ratio |-> vis.ratio,
                  centerDistance |-> vis.centerDistance])

\* delete() removing nothing: the page stays in the map.
MapDeleteNothing(m, page) == m

MapDelete(m, page) == SelectSeq(m, LAMBDA e : e.page # page)

\* BestStep with ">=" for ">": a later page with an equal ratio always wins.
BestStepLastWins(best, e) ==
  IF e.ratio >= best.ratio
  THEN [page |-> e.page, ratio |-> e.ratio, centerDistance |-> e.centerDistance]
  ELSE best

\* BestStep without the second tier: a tie on the ratio keeps the earlier page.
BestStepRatioOnly(best, e) ==
  IF e.ratio > best.ratio
  THEN [page |-> e.page, ratio |-> e.ratio, centerDistance |-> e.centerDistance]
  ELSE best

\* The forEach callback of reportPageVisibility, applied to one entry.
BestStep(best, e) ==
  IF e.ratio > best.ratio
  THEN [page |-> e.page, ratio |-> e.ratio, centerDistance |-> e.centerDistance]
  ELSE IF e.ratio = best.ratio /\ e.centerDistance < best.centerDistance
       THEN [page |-> e.page, ratio |-> best.ratio, centerDistance |-> e.centerDistance]
       ELSE best

RECURSIVE BestScan(_, _, _)
BestScan(m, i, best) ==
  IF i > Len(m) THEN best ELSE BestScan(m, i + 1, BestStep(best, m[i]))

\* The tiers swapped: the page nearest to the centre, whatever its ratio.
BestPageNearest(m) ==
  IF m = <<>>
  THEN [page |-> 1, ratio |-> 0, centerDistance |-> Infinity]
  ELSE m[CHOOSE k \in DOMAIN m :
           \A j \in DOMAIN m : m[k].centerDistance <= m[j].centerDistance]

\* bestPage, bestRatio, bestCenterDistance after the forEach.
BestPage(m) == BestScan(m, 1, [page |-> 1, ratio |-> 0, centerDistance |-> Infinity])

\* The arguments the operations are called with in some specification below;
\* the arithmetic on them is evaluated once and kept in tables.
RatioDomain == -100..200
PageDomain == 0..(MaxPage + 50)
TotalDomain == 2..50
ScrollDomain == (-100..1000) \cup {2100, 2300}
HeightDomain == {100}

\* Math.round(ratio * 10), the ratio given in hundredths.
ViewportProgressTable ==
  [ratio \in RatioDomain |-> MathRound(NumMul(NumDiv(ratio, 100), 10))]

\* Math.floor for Math.round: the progress truncated to a 10% step.
ViewportProgressTruncated(ratio) == ratio \div 10

ViewportProgress(ratio) == ViewportProgressTable[ratio]

\* Math.round(((page - 1) / (total - 1)) * 100).
DocumentProgressTable ==
  [page \in PageDomain, total \in TotalDomain |->
     MathRound(NumMul(NumDiv(page - 1, total - 1), 100))]

\* The share of the document still ahead of the page, not the share behind it.
DocumentProgressRemaining(page, total) ==
  IF total > 1 THEN 100 - DocumentProgressTable[page, total] ELSE 0

\* this.totalPages > 1 ? Math.round(((page - 1) / (total - 1)) * 100) / 100 : 0
DocumentProgress(page, total) ==
  IF total > 1 THEN DocumentProgressTable[page, total] ELSE 0

\* Math.floor(scrollTop / pageHeight) + 1
RawPageTable ==
  [scrollTop \in ScrollDomain, pageHeight \in HeightDomain |->
     MathFloor(NumDiv(scrollTop, pageHeight)) + 1]

\* Math.round(Math.max(0, Math.min(positionInPage / pageHeight, 1)) * 10)
ScrollProgressTable ==
  [positionInPage \in ScrollDomain, pageHeight \in HeightDomain |->
     MathRound(NumMul(Clamp01(NumDiv(positionInPage, pageHeight)), 10))]

\* notifyListeners stopping after the first listener.
NotifyFirstListener(h, cur, used, ls, hd) ==
  LET o == Fresh(used)
      hp == [h EXCEPT ![o] = h[cur]]
  IN [heap |-> hp,
      ref |-> o,
      calls |-> [l \in Listeners |-> IF ls # <<>> /\ l = ls[1] THEN <<hp[o]>> ELSE <<>>],
      held |-> [l \in Listeners |-> IF ls # <<>> /\ l = ls[1] /\ l \in keepers
                                    THEN o ELSE hd[l]]]

\* notifyListeners(): one copy of the view, handed to every listener in turn.
NotifyListeners(h, cur, used, ls, hd) ==
  LET g == GetCurrentView(h, cur, used)
  IN [heap |-> g.heap,
      ref |-> g.ref,
      calls |-> [l \in Listeners |-> IF l \in Range(ls) THEN <<g.heap[g.ref]>> ELSE <<>>],
      held |-> [l \in Listeners |-> IF l \in Range(ls) /\ l \in keepers
                                    THEN g.ref ELSE hd[l]]]

\* syncToWindow(): window.Engram.currentView = this.getCurrentView().
SyncToWindow(h, cur, used) == GetCurrentView(h, cur, used)

\* this.currentView = {...}; this.notifyListeners(); this.syncToWindow();
Publish(view, o) ==
  LET c == Fresh(Live)
      n == NotifyListeners([heap EXCEPT ![c] = view], c, Live \cup {c}, listeners, held)
      w == SyncToWindow(n.heap, c, Live \cup {c, n.ref})
  IN /\ Commit(w.heap, c, w.ref, n.held)
     /\ Log(o, n.calls, 1, SnapshotStale(heap, windowView, n.calls))

\* The test without the viewportProgress and documentProgress comparisons
\* gone wrong: every recomputation counts as a change.
ChangedAlways(old, page, vp, dp) == TRUE

\* The "only update if changed" test of reportPageVisibility and updateFromScroll.
Changed(old, page, vp, dp) ==
  \/ old.pageNumber # page
  \/ old.viewportProgress # vp
  \/ old.documentProgress # dp

\* Publishing without the "only update if changed" test.
PublishAlways(page, vp, dp, total, o) == Publish(CurrentView(page, vp, dp, total), o)

PublishIfChanged(page, vp, dp, total, o) ==
  IF Changed(heap[currentView], page, vp, dp)
  THEN Publish(CurrentView(page, vp, dp, total), o)
  ELSE /\ Log(o, NoCalls, 0, FALSE)
       /\ UNCHANGED <<heap, currentView, windowView, held>>

ReportPageVisibility(pageNumber, intersectionRatio, centerDistance) ==
  LET m == MapSet(pageVisibilities, pageNumber,
                  [ratio |-> intersectionRatio, centerDistance |-> centerDistance])
      best == BestPage(m)
  IN /\ pageVisibilities' = m
     /\ PublishIfChanged(best.page, ViewportProgress(best.ratio),
                         DocumentProgress(best.page, totalPages), totalPages,
                         [name |-> "reportPageVisibility",
                          args |-> <<pageNumber, intersectionRatio, centerDistance>>])
     /\ UNCHANGED <<totalPages, initialized, listeners, keepers, disposers>>

\* unregisterPage re-evaluating the best page and publishing it.
UnregisterPageRecomputing(pageNumber) ==
  LET m == MapDelete(pageVisibilities, pageNumber)
      best == BestPage(m)
  IN /\ pageVisibilities' = m
     /\ PublishIfChanged(best.page, ViewportProgress(best.ratio),
                         DocumentProgress(best.page, totalPages), totalPages,
                         [name |-> "unregisterPage", args |-> <<pageNumber>>])
     /\ UNCHANGED <<totalPages, initialized, listeners, keepers, disposers>>

UnregisterPage(pageNumber) ==
  /\ pageVisibilities' = MapDelete(pageVisibilities, pageNumber)
  /\ Log([name |-> "unregisterPage", args |-> <<pageNumber>>], NoCalls, 0, FALSE)
  /\ UNCHANGED <<totalPages, initialized, listeners, keepers, disposers,
                 heap, currentView, windowView, held>>

\* reset calling notifyListeners as the other writers of currentView do.
ResetNotifying ==
  /\ pageVisibilities' = <<>>
  /\ Publish(CurrentView(1, 0, 0, totalPages), [name |-> "reset", args |-> <<>>])
  /\ UNCHANGED <<totalPages, initialized, listeners, keepers, disposers>>

Reset ==
  LET c == Fresh(Live)
      w == SyncToWindow([heap EXCEPT ![c] = CurrentView(1, 0, 0, totalPages)],
                        c, Live \cup {c})
  IN /\ pageVisibilities' = <<>>
     /\ Commit(w.heap, c, w.ref, held)
     /\ Log([name |-> "reset", args |-> <<>>], NoCalls, 1, FALSE)
     /\ UNCHANGED <<totalPages, initialized, listeners, keepers, disposers>>

\* setView with the change test of reportPageVisibility.
SetViewIfChanged(pageNumber, viewportProgress) ==
  LET clampedPage == Max(1, Min(pageNumber, totalPages))
      clampedProgress == Max(0, Min(ViewportProgress(viewportProgress), 10))
  IN /\ PublishIfChanged(clampedPage, clampedProgress,
                         DocumentProgress(clampedPage, totalPages), totalPages,
                         [name |-> "setView", args |-> <<pageNumber, viewportProgress>>])
     /\ UNCHANGED <<pageVisibilities, totalPages, initialized, listeners, keepers,
                    disposers>>

SetView(pageNumber, viewportProgress) ==
  LET clampedPage == Max(1, Min(pageNumber, totalPages))
      clampedProgress == Max(0, Min(ViewportProgress(viewportProgress), 10))
  IN /\ Publish(CurrentView(clampedPage, clampedProgress,
                            DocumentProgress(clampedPage, totalPages), totalPages),
                [name |-> "setView", args |-> <<pageNumber, viewportProgress>>])
     /\ UNCHANGED <<pageVisibilities, totalPages, initialized, listeners, keepers,
                    disposers>>

\* pageNumber, viewportProgress and documentProgress of a view.
Triple(v) == <<v.pageNumber, v.viewportProgress, v.documentProgress>>

\* The view setView(pageNumber, viewportProgress) assigns to currentView.
SetViewValue(pageNumber, viewportProgress) ==
  LET clampedPage == Max(1, Min(pageNumber, totalPages))
      clampedProgress == Max(0, Min(ViewportProgress(viewportProgress), 10))
  IN CurrentView(clampedPage, clampedProgress,
                 DocumentProgress(clampedPage, totalPages), totalPages)

\* Position of a registered listener in the iteration order of the Set.
Position(ls, l) == CHOOSE i \in DOMAIN ls : ls[i] = l

\* this.currentView = view; notifyListeners(); syncToWindow(), where the
\* callback of listener calls setView synchronously when it is given view, and
\* that setView assigns inner.  The nested call runs its own forEach over all
\* listeners and its own syncToWindow before the outer forEach goes on with
\* the listeners after listener, which are given the outer view.  No consumer
\* keeps the objects it is given here.
PublishReentrant(view, o, listener, inner) ==
  LET k == Position(listeners, listener)
      c == Fresh(Live)
      w == SyncToWindow([heap EXCEPT ![c] = inner], c, Live \cup {c})
      delivered == [l \in Listeners |->
                      IF l \notin Range(listeners) THEN <<>>
                      ELSE IF Position(listeners, l) <= k THEN <<view, inner>>
                      ELSE <<inner, view>>]
  IN /\ Commit(w.heap, c, w.ref, held)
     /\ Log(o, delivered, 2, SnapshotStale(heap, windowView, delivered))

\* setView(pageNumber, viewportProgress) with a subscriber whose callback calls
\* setView(innerPage, 0) when it is given the view of the outer call.
SetViewReentrant(pageNumber, viewportProgress, listener, innerPage) ==
  LET view == SetViewValue(pageNumber, viewportProgress)
      inner == SetViewValue(innerPage, 0)
  IN /\ listener \in Range(listeners)
     /\ Triple(view) # Triple(inner)
     /\ PublishReentrant(view, [name |-> "setView",
                                args |-> <<pageNumber, viewportProgress>>],
                         listener, inner)
     /\ UNCHANGED <<pageVisibilities, totalPages, initialized, listeners, keepers,
                    disposers>>

\* reportPageVisibility with such a subscriber.
ReportPageVisibilityReentrant(pageNumber, intersectionRatio, centerDistance, listener, innerPage) ==
  LET m == MapSet(pageVisibilities, pageNumber,
                  [ratio |-> intersectionRatio, centerDistance |-> centerDistance])
      best == BestPage(m)
      view == CurrentView(best.page, ViewportProgress(best.ratio),
                          DocumentProgress(best.page, totalPages), totalPages)
      inner == SetViewValue(innerPage, 0)
  IN /\ listener \in Range(listeners)
     /\ Triple(view) # Triple(inner)
     /\ Changed(heap[currentView], view.pageNumber, view.viewportProgress,
                view.documentProgress)
     /\ pageVisibilities' = m
     /\ PublishReentrant(view, [name |-> "reportPageVisibility",
                                args |-> <<pageNumber, intersectionRatio, centerDistance>>],
                         listener, inner)
     /\ UNCHANGED <<totalPages, initialized, listeners, keepers, disposers>>

\* this.currentView = view; notifyListeners(); syncToWindow(), where the
\* callback of listener throws: forEach stops there, the exception leaves
\* notifyListeners and the caller, and syncToWindow is not reached.
PublishThrowing(view, o, listener) ==
  LET k == Position(listeners, listener)
      c == Fresh(Live)
      delivered == [l \in Listeners |->
                      IF l \in Range(listeners) /\ Position(listeners, l) <= k
                      THEN <<view>> ELSE <<>>]
  IN /\ Commit([heap EXCEPT ![c] = view], c, windowView, held)
     /\ Log(o, delivered, 0, SnapshotStale(heap, windowView, delivered))

\* setView(pageNumber, viewportProgress) with a subscriber whose callback throws.
SetViewThrowing(pageNumber, viewportProgress, listener) ==
  /\ listener \in Range(listeners)
  /\ PublishThrowing(SetViewValue(pageNumber, viewportProgress),
                     [name |-> "setView", args |-> <<pageNumber, viewportProgress>>],
                     listener)
  /\ UNCHANGED <<pageVisibilities, totalPages, initialized, listeners, keepers,
                 disposers>>

\* A reportPageVisibility that changes the view, with such a subscriber.
ReportPageVisibilityThrowing(pageNumber, intersectionRatio, centerDistance, listener) ==
  LET m == MapSet(pageVisibilities, pageNumber,
                  [ratio |-> intersectionRatio, centerDistance |-> centerDistance])
      best == BestPage(m)
      view == CurrentView(best.page, ViewportProgress(best.ratio),
                          DocumentProgress(best.page, totalPages), totalPages)
  IN /\ listener \in Range(listeners)
     /\ Changed(heap[currentView], view.pageNumber, view.viewportProgress,
                view.documentProgress)
     /\ pageVisibilities' = m
     /\ PublishThrowing(view, [name |-> "reportPageVisibility",
                              args |-> <<pageNumber, intersectionRatio, centerDistance>>],
                        listener)
     /\ UNCHANGED <<totalPages, initialized, listeners, keepers, disposers>>

\* setTotalPages recomputing documentProgress and publishing the view.
SetTotalPagesRecomputing(total) ==
  /\ totalPages' = total
  /\ Publish(CurrentView(View.pageNumber, View.viewportProgress,
                         DocumentProgress(View.pageNumber, total), total),
             [name |-> "setTotalPages", args |-> <<total>>])
  /\ UNCHANGED <<pageVisibilities, initialized, listeners, keepers, disposers>>

SetTotalPages(total) ==
  /\ totalPages' = total
  /\ Log([name |-> "setTotalPages", args |-> <<total>>], NoCalls, 0, FALSE)
  /\ UNCHANGED <<pageVisibilities, initialized, listeners, keepers, disposers,
                 heap, currentView, windowView, held>>

SetAdd(ls, l) == IF l \in Range(ls) THEN ls ELSE Append(ls, l)

\* A disposer that removes nothing.
SetDeleteNothing(ls, l) == ls

SetDelete(ls, l) == SelectSeq(ls, LAMBDA x : x # l)

\* subscribe calling the listener with the initial view, not the current one.
SubscribeInitialView(listener) ==
  /\ listeners' = SetAdd(listeners, listener)
  /\ disposers' = disposers \cup {listener}
  /\ Log([name |-> "subscribe", args |-> <<listener>>],
         [NoCalls EXCEPT ![listener] = <<InitialView>>], 0, FALSE)
  /\ UNCHANGED <<pageVisibilities, totalPages, initialized, keepers,
                 heap, currentView, windowView, held>>

Subscribe(listener) ==
  LET g == GetCurrentView(heap, currentView, Live)
  IN /\ listeners' = SetAdd(listeners, listener)
     /\ Commit(g.heap, currentView, windowView,
               [held EXCEPT ![listener] = IF listener \in keepers THEN g.ref ELSE @])
     /\ disposers' = disposers \cup {listener}
     /\ Log([name |-> "subscribe", args |-> <<listener>>],
            [NoCalls EXCEPT ![listener] = <<g.heap[g.ref]>>], 0,
            SnapshotStale(heap, windowView, [NoCalls EXCEPT ![listener] = <<g.heap[g.ref]>>]))
     /\ UNCHANGED <<pageVisibilities, totalPages, initialized, keepers>>

\* The function returned by subscribe: () => this.listeners.delete(listener).
Dispose(listener) ==
  /\ listener \in disposers
  /\ listeners' = SetDelete(listeners, listener)
  /\ Log([name |-> "dispose", args |-> <<listener>>], NoCalls, 0, FALSE)
  /\ UNCHANGED <<pageVisibilities, totalPages, initialized, keepers, disposers,
                 heap, currentView, windowView, held>>

\* initialize setting the flag without writing window.Engram.currentView.
InitializeWithoutSync ==
  /\ ~initialized
  /\ initialized' = TRUE
  /\ Log([name |-> "initialize", args |-> <<>>], NoCalls, 0, FALSE)
  /\ UNCHANGED <<pageVisibilities, totalPages, listeners, keepers, disposers,
                 heap, currentView, windowView, held>>

Initialize ==
  /\ ~initialized
  /\ initialized' = TRUE
  /\ LET w == SyncToWindow(heap, currentView, Live)
     IN Commit(w.heap, currentView, w.ref, held)
  /\ Log([name |-> "initialize", args |-> <<>>], NoCalls, 1, FALSE)
  /\ UNCHANGED <<pageVisibilities, totalPages, listeners, keepers, disposers>>

\* updateFromScroll without the totalPages <= 0 half of its guard.
UpdateFromScrollAnyTotal(scrollTop, pageHeight, total) ==
  IF pageHeight <= 0
  THEN /\ Log([name |-> "updateFromScroll", args |-> <<scrollTop, pageHeight, total>>],
              NoCalls, 0, FALSE)
       /\ UNCHANGED <<pageVisibilities, totalPages, initialized, listeners, keepers,
                      disposers, heap, currentView, windowView, held>>
  ELSE LET pageNumber == Max(1, Min(RawPageTable[scrollTop, pageHeight], total))
           positionInPage == scrollTop - (pageNumber - 1) * pageHeight
       IN /\ totalPages' = total
          /\ PublishIfChanged(pageNumber, ScrollProgressTable[positionInPage, pageHeight],
                              DocumentProgress(pageNumber, total), total,
                              [name |-> "updateFromScroll",
                               args |-> <<scrollTop, pageHeight, total>>])
          /\ UNCHANGED <<pageVisibilities, initialized, listeners, keepers, disposers>>

\* updateFromScroll assigning this.totalPages only when it publishes.
UpdateFromScrollLazyTotal(scrollTop, pageHeight, total) ==
  IF pageHeight <= 0 \/ total <= 0
  THEN /\ Log([name |-> "updateFromScroll", args |-> <<scrollTop, pageHeight, total>>],
              NoCalls, 0, FALSE)
       /\ UNCHANGED <<pageVisibilities, totalPages, initialized, listeners, keepers,
                      disposers, heap, currentView, windowView, held>>
  ELSE LET pageNumber == Max(1, Min(RawPageTable[scrollTop, pageHeight], total))
           positionInPage == scrollTop - (pageNumber - 1) * pageHeight
           viewportProgress == ScrollProgressTable[positionInPage, pageHeight]
       IN /\ totalPages' = IF Changed(heap[currentView], pageNumber, viewportProgress,
                                      DocumentProgress(pageNumber, total))
                           THEN total
                           ELSE totalPages
          /\ PublishIfChanged(pageNumber, viewportProgress,
                              DocumentProgress(pageNumber, total), total,
                              [name |-> "updateFromScroll",
                               args |-> <<scrollTop, pageHeight, total>>])
          /\ UNCHANGED <<pageVisibilities, initialized, listeners, keepers, disposers>>

UpdateFromScroll(scrollTop, pageHeight, total) ==
  IF pageHeight <= 0 \/ total <= 0
  THEN /\ Log([name |-> "updateFromScroll", args |-> <<scrollTop, pageHeight, total>>],
              NoCalls, 0, FALSE)
       /\ UNCHANGED <<pageVisibilities, totalPages, initialized, listeners, keepers,
                      disposers, heap, currentView, windowView, held>>
  ELSE LET rawPage == RawPageTable[scrollTop, pageHeight]
           pageNumber == Max(1, Min(rawPage, total))
           pageStartOffset == (pageNumber - 1) * pageHeight
           positionInPage == scrollTop - pageStartOffset
           viewportProgress == ScrollProgressTable[positionInPage, pageHeight]
       IN /\ totalPages' = total
          /\ PublishIfChanged(pageNumber, viewportProgress,
                              DocumentProgress(pageNumber, total), total,
                              [name |-> "updateFromScroll",
                               args |-> <<scrollTop, pageHeight, total>>])
          /\ UNCHANGED <<pageVisibilities, initialized, listeners, keepers, disposers>>

(***************************************************************************)
(* Consumers: a consumer may pull a view, read the global read point, and  *)
(* write to a view object it holds.                                        *)
(***************************************************************************)
ConsumerGet(c) ==
  LET g == GetCurrentView(heap, currentView, Live)
  IN /\ Commit(g.heap, currentView, windowView, [held EXCEPT ![c] = g.ref])
     /\ Log([name |-> "getCurrentView", args |-> <<c>>], NoCalls, 0, FALSE)
     /\ UNCHANGED <<pageVisibilities, totalPages, initialized, listeners, keepers,
                    disposers>>

ConsumerReadWindow(c) ==
  /\ windowView # Null
  /\ Commit(heap, currentView, windowView, [held EXCEPT ![c] = windowView])
  /\ Log([name |-> "readWindow", args |-> <<c>>], NoCalls, 0, FALSE)
  /\ UNCHANGED <<pageVisibilities, totalPages, initialized, listeners, keepers,
                 disposers>>

ConsumerMutate(c, page) ==
  /\ held[c] # Null
  /\ heap[held[c]].pageNumber # page
  /\ Commit([heap EXCEPT ![held[c]].pageNumber = page], currentView, windowView, held)
  /\ Log([name |-> "mutate", args |-> <<c, page>>], NoCalls, 0, FALSE)
  /\ UNCHANGED <<pageVisibilities, totalPages, initialized, listeners, keepers,
                 disposers>>

(***************************************************************************)
(* useStorage (src/src/hooks/useHybridLoader.ts): the debounced save of   *)
(* the page position.  Time advances in steps; a timer whose remaining     *)
(* time is 0 is due and runs before time advances further.                 *)
(***************************************************************************)
tracker == <<pageVisibilities, totalPages, initialized, listeners, heap, currentView,
             windowView, held, keepers, disposers, recording>>

\* A step of a component in which the tracker is not called.
ComponentLog(o) ==
  /\ op' = o
  /\ calls' = NoCalls
  /\ synced' = 0
  /\ staleRead' = FALSE
  /\ repeated' = FALSE
  /\ prevCalls' = 0
  /\ prior' = NoPrior
  /\ UNCHANGED tracker

\* An operation of the hook.
StorageLog(o) ==
  /\ ComponentLog(o)
  /\ UNCHANGED <<pageTracker, viewer, observers, hybridLoader, storageService>>

\* clearTimeout(saveTimeoutRef.current): a timer that has run is not affected.
ClearTimeout(timers) == SelectSeq(timers, LAMBDA t : ~t.current)

\* saveTimeoutRef.current = setTimeout(..., SAVE_DEBOUNCE_MS)
SetTimeout(timers, page) ==
  Append([i \in DOMAIN timers |-> [timers[i] EXCEPT !.current = FALSE]],
         [page |-> page, remaining |-> SAVE_DEBOUNCE_MS, current |-> TRUE,
          stale |-> FALSE, burst |-> IF burst.sinceCall >= SAVE_DEBOUNCE_MS
                                     THEN 1 - burst.id ELSE burst.id])

\* The cleanup setting cancelled and leaving the pending timer alone.
CleanupWithoutClear(h) ==
  [h EXCEPT !.initialize = IF @ = "running" THEN "cancelled" ELSE @,
            !.timers = [i \in DOMAIN @ |-> [@[i] EXCEPT !.stale = TRUE]]]

\* The function the init effect returns: cancelled = true; clearTimeout(...).
Cleanup(h) ==
  LET left == ClearTimeout(h.timers)
  IN [h EXCEPT !.initialize = IF @ = "running" THEN "cancelled" ELSE @,
               !.timers = [i \in DOMAIN left |-> [left[i] EXCEPT !.stale = TRUE]]]

\* The init effect: nothing when initializedRef.current is set (and then no
\* cleanup is returned), otherwise initialize() starts and the cleanup is returned.
InitEffect(h) ==
  IF h.initializedRef
  THEN [h EXCEPT !.cleanup = FALSE]
  ELSE [h EXCEPT !.cleanup = TRUE, !.initialize = "running", !.initSource = h.source]

RunCleanup(h) == IF h.cleanup THEN Cleanup(h) ELSE h

Cancels(h) == h.cleanup /\ \E i \in DOMAIN h.timers : h.timers[i].current

Mount ==
  /\ hook.mounted = "no"
  /\ hook' = InitEffect([hook EXCEPT !.mounted = "yes"])
  /\ StorageLog([name |-> "mount", args |-> <<>>])
  /\ UNCHANGED <<store, burst>>

\* initialize() reaches "if (cancelled) return;" with cancelled false.
InitializeResolves ==
  /\ hook.initialize = "running"
  /\ hook' = [hook EXCEPT !.initialize = "done", !.initializedRef = TRUE,
                          !.documentId = hook.initSource]
  /\ StorageLog([name |-> "initialized", args |-> <<>>])
  /\ UNCHANGED <<store, burst>>

\* StorageService rejects: the catch block, documentId stays null.
InitializeFails ==
  /\ hook.initialize = "running"
  /\ hook' = [hook EXCEPT !.initialize = "failed"]
  /\ StorageLog([name |-> "initializeFailed", args |-> <<>>])
  /\ UNCHANGED <<store, burst>>

\* The source option changes to the other document: the cleanup of the last
\* run, then the effect again.
ChangeSource ==
  /\ hook.mounted = "yes"
  /\ hook' = InitEffect([RunCleanup(hook) EXCEPT !.source = 3 - @])
  /\ burst' = [burst EXCEPT !.cancelled = @ \/ Cancels(hook)]
  /\ StorageLog([name |-> "changeSource", args |-> <<>>])
  /\ UNCHANGED store

Unmount ==
  /\ hook.mounted = "yes"
  /\ hook' = [RunCleanup(hook) EXCEPT !.mounted = "gone", !.cleanup = FALSE]
  /\ burst' = [burst EXCEPT !.cancelled = @ \/ Cancels(hook)]
  /\ StorageLog([name |-> "unmount", args |-> <<>>])
  /\ UNCHANGED store

UpdatePage(page) ==
  /\ hook.mounted = "yes"
  /\ IF hook.documentId = Null
     THEN UNCHANGED <<hook, burst>>
     ELSE /\ hook' = IF hook.lastSavedPageRef = page
                     THEN hook
                     ELSE [hook EXCEPT !.timers = SetTimeout(ClearTimeout(@), page)]
          /\ burst' = [burst EXCEPT
                         !.lastCall = page, !.sinceCall = 0,
                         !.cancelled = @ /\ hook.lastSavedPageRef = page,
                         !.id = IF burst.sinceCall >= SAVE_DEBOUNCE_MS THEN 1 - @ ELSE @,
                         !.started = IF burst.sinceCall >= SAVE_DEBOUNCE_MS THEN 0 ELSE @]
  /\ StorageLog([name |-> "updatePage", args |-> <<page>>])
  /\ UNCHANGED store

\* The timer callback starts: await StorageService.updatePagePosition(...).
TimerFires ==
  \E i \in DOMAIN hook.timers :
    /\ hook.timers[i].remaining = 0
    /\ Len(store.writes) < 2
    /\ hook' = [hook EXCEPT !.timers = SelectSeq(@, LAMBDA t : t # hook.timers[i])]
    /\ store' = [store EXCEPT !.writes = Append(@, hook.timers[i].page)]
    /\ burst' = [burst EXCEPT !.started = IF hook.timers[i].burst = burst.id
                                          THEN Min(@ + 1, 2) ELSE @]
    /\ StorageLog([name |-> "saveStarted", args |-> <<hook.timers[i].page>>])

\* updatePagePosition resolves: progress.currentPage = page is stored, then
\* lastSavedPageRef.current = page.
WriteCompletes ==
  /\ store.writes # <<>>
  /\ store' = [currentPage |-> Head(store.writes), writes |-> Tail(store.writes)]
  /\ hook' = [hook EXCEPT !.lastSavedPageRef = Head(store.writes)]
  /\ StorageLog([name |-> "saved", args |-> <<Head(store.writes)>>])
  /\ UNCHANGED burst

\* Time passes; no timer is overdue.
Tick(ms) ==
  /\ \A i \in DOMAIN hook.timers : hook.timers[i].remaining >= ms
  /\ hook.timers # <<>> \/ burst.sinceCall < SAVE_DEBOUNCE_MS
  /\ hook' = [hook EXCEPT !.timers =
                [i \in DOMAIN @ |-> [@[i] EXCEPT !.remaining = @ - ms]]]
  /\ burst' = [burst EXCEPT !.sinceCall = Min(@ + ms, SAVE_DEBOUNCE_MS)]
  /\ StorageLog([name |-> "tick", args |-> <<ms>>])
  /\ UNCHANGED store

(***************************************************************************)
(* PageTracker (src/src/components/PageTracker.tsx): the restore effect.   *)
(***************************************************************************)
\* A step of PageTracker or PDFViewer.
RestoreLog(o) ==
  /\ ComponentLog(o)
  /\ UNCHANGED <<hook, store, burst, observers, hybridLoader, storageService>>

\* The restore effect after one of its dependencies changed: the cleanup of
\* the last run (clearTimeout), then the body.
RestoreEffect(pt) ==
  LET cleared == [pt EXCEPT !.timer = Null]
  IN IF \/ ~pt.storageReady
        \/ ~pt.isReady
        \/ pt.scrollCapability = Null
        \/ pt.hasRestoredRef
        \/ pt.initialPage = Null
        \/ pt.initialPage <= 1
     THEN cleared
     ELSE IF pt.totalPages > 0 /\ pt.initialPage > pt.totalPages
          THEN cleared
          ELSE [cleared EXCEPT !.timer = pt.initialPage]

\* The parent renders PageTracker with other storageReady / initialPage props.
PageTrackerProps(ready, page) ==
  /\ <<ready, page>> # <<pageTracker.storageReady, pageTracker.initialPage>>
  /\ pageTracker' = RestoreEffect([pageTracker EXCEPT !.storageReady = ready,
                                                      !.initialPage = page])
  /\ RestoreLog([name |-> "props", args |-> <<page>>])
  /\ UNCHANGED viewer

\* useScrollCapability provides a (new) capability object: isReady is set and
\* the effects that depend on scrollCapability run.
ScrollCapabilityProvided(total) ==
  /\ pageTracker' = RestoreEffect([pageTracker EXCEPT
                                     !.scrollCapability = IF @ = 1 THEN 2 ELSE 1,
                                     !.totalPages = total,
                                     !.isReady = TRUE])
  /\ RestoreLog([name |-> "scrollCapability", args |-> <<total>>])
  /\ UNCHANGED viewer

\* The document finishes loading: getTotalPages() returns its page count from
\* now on.  No dependency of the restore effect changes.
DocumentLoaded ==
  /\ pageTracker.scrollCapability # Null
  /\ pageTracker.totalPages = 0
  /\ pageTracker' = [pageTracker EXCEPT !.totalPages = maxPages]
  /\ RestoreLog([name |-> "documentLoaded", args |-> <<>>])
  /\ UNCHANGED viewer

\* The timer callback without "hasRestoredRef.current = true".
RestoreTimerForgetting ==
  /\ pageTracker.timer # Null
  /\ pageTracker' = [pageTracker EXCEPT !.timer = Null,
                                        !.restores = Min(@ + 1, 2),
                                        !.target = pageTracker.timer]
  /\ RestoreLog([name |-> "scrollToPage", args |-> <<pageTracker.timer>>])
  /\ UNCHANGED viewer

\* The 200 ms timer runs: scrollToPage({ pageNumber: initialPage }) and
\* hasRestoredRef.current = true.
RestoreTimer ==
  /\ pageTracker.timer # Null
  /\ pageTracker' = [pageTracker EXCEPT !.timer = Null,
                                        !.restores = Min(@ + 1, 2),
                                        !.target = pageTracker.timer,
                                        !.hasRestoredRef = TRUE]
  /\ RestoreLog([name |-> "scrollToPage", args |-> <<pageTracker.timer>>])
  /\ UNCHANGED viewer

(***************************************************************************)
(* PDFViewer (src/src/components/PDFViewer.tsx): storage initialisation,   *)
(* handlePageChange and the scroll tracking effect.                        *)
(***************************************************************************)
\* A run of the scroll tracking effect: the values its closures captured and
\* how far setupScrollTracking has got.
NewEffect(v) ==
  [initialPage |-> v.initialPage, storedPage |-> v.storedPage, stage |-> "wait",
   listening |-> FALSE, hasRestoredPage |-> FALSE, current |-> TRUE]

\* The cleanup of the last run: clearTimeout(timer) and removeEventListener.
\* The retry timer and the 100 ms timer are not cleared.  Runs with neither a
\* timer nor a listener left are dropped.
EffectCleanup(effects) ==
  LET cleaned == [i \in DOMAIN effects |->
                    IF effects[i].current
                    THEN [effects[i] EXCEPT !.current = FALSE, !.listening = FALSE,
                                            !.stage = IF @ = "wait" THEN "cleared" ELSE @]
                    ELSE effects[i]]
  IN SelectSeq(cleaned, LAMBDA e : e.listening \/ e.stage \in {"retry", "restoring"})

\* After a render: the scroll tracking effect runs again when storageReady,
\* initialPage or handlePageChange (storageReady, storedPage) has changed.
\* An unmounted component does not render.
ScrollEffect(before, after) ==
  IF \/ after.unmounted
     \/ <<before.storageReady, before.initialPage, before.storedPage>>
          = <<after.storageReady, after.initialPage, after.storedPage>>
  THEN after
  ELSE [after EXCEPT !.effects = IF after.storageReady
                                 THEN Append(EffectCleanup(@), NewEffect(after))
                                 ELSE EffectCleanup(@)]

\* handlePageChange as captured by run e (storageReady is true in every run).
HandlePageChange(v, e, page) ==
  IF page # e.storedPage
  THEN [v EXCEPT !.localStorage = page, !.storedPage = page]
  ELSE v

\* The largest scrollTop of the container: a viewport one page high.
MaxScrollTop == (maxPages - 1) * pageHeightEstimate

\* clampedPage of the scroll handler.
ClampedPage(scrollTop) == Max(1, Min((scrollTop \div pageHeightEstimate) + 1, maxPages))

\* Mount: initStorage reads localStorage, then the scroll tracking effect runs.
ViewerMount(stored) ==
  /\ ~viewer.storageReady
  /\ viewer' = ScrollEffect(viewer,
                  [viewer EXCEPT !.localStorage = stored, !.storedPage = stored,
                                 !.initialPage = stored, !.storageReady = TRUE,
                                 !.scrollTop = 0])
  /\ RestoreLog([name |-> "initStorage", args |-> <<stored>>])
  /\ UNCHANGED pageTracker

\* setupScrollTracking without the scrollHandler() call that reports the
\* page the container shows when tracking starts.
SetupScrollTrackingSilent(i, found) ==
  LET e == viewer.effects[i]
  IN /\ e.stage \in {"wait", "retry"}
     /\ IF ~found
        THEN viewer' = [viewer EXCEPT !.effects[i].stage = "retry"]
        ELSE IF e.initialPage # Null /\ e.initialPage > 1
        THEN viewer' = [viewer EXCEPT
                          !.effects[i] = [e EXCEPT !.stage = "restoring",
                                                   !.listening = TRUE],
                          !.restores = Min(@ + 1, 2),
                          !.target = (e.initialPage - 1) * pageHeightEstimate,
                          !.scrollTop = Min((e.initialPage - 1) * pageHeightEstimate,
                                            MaxScrollTop)]
        ELSE viewer' = [viewer EXCEPT
                          !.effects[i] = [e EXCEPT !.stage = "tracking",
                                                   !.listening = TRUE,
                                                   !.hasRestoredPage = TRUE]]
     /\ RestoreLog([name |-> "setupScrollTracking", args |-> <<found>>])
     /\ UNCHANGED pageTracker

\* setupScrollTracking of run i, from the 2500 ms timer or a retry.
SetupScrollTracking(i, found) ==
  LET e == viewer.effects[i]
  IN /\ e.stage \in {"wait", "retry"}
     /\ IF ~found
        THEN viewer' = [viewer EXCEPT !.effects[i].stage = "retry"]
        ELSE IF e.initialPage # Null /\ e.initialPage > 1
        THEN viewer' = [viewer EXCEPT
                          !.effects[i] = [e EXCEPT !.stage = "restoring",
                                                   !.listening = TRUE],
                          !.restores = Min(@ + 1, 2),
                          !.target = (e.initialPage - 1) * pageHeightEstimate,
                          !.scrollTop = Min((e.initialPage - 1) * pageHeightEstimate,
                                            MaxScrollTop)]
        ELSE LET tracking == [e EXCEPT !.stage = "tracking", !.listening = TRUE,
                                       !.hasRestoredPage = TRUE]
             IN viewer' = ScrollEffect(viewer,
                            HandlePageChange([viewer EXCEPT !.effects[i] = tracking],
                                             e, ClampedPage(viewer.scrollTop)))
     /\ RestoreLog([name |-> "setupScrollTracking", args |-> <<found>>])
     /\ UNCHANGED pageTracker

\* The 100 ms timer of run i: hasRestoredPage = true; setInitialPage(null);
\* handlePageChange(initialPage).
RestoreDelay(i) ==
  LET e == viewer.effects[i]
      done == [e EXCEPT !.stage = "tracking", !.hasRestoredPage = TRUE]
      kept == IF e.listening
              THEN [viewer EXCEPT !.effects[i] = done]
              ELSE [viewer EXCEPT !.effects =
                      SelectSeq(@, LAMBDA x : x # e)]
  IN /\ e.stage = "restoring"
     /\ viewer' = ScrollEffect(viewer,
                     HandlePageChange([kept EXCEPT !.initialPage = Null],
                                      e, e.initialPage))
     /\ RestoreLog([name |-> "restored", args |-> <<e.initialPage>>])
     /\ UNCHANGED pageTracker

\* The scroll handler without "if (!hasRestoredPage && initialPage && initialPage > 1) return;".
ScrollEventUnguarded(i, scrollTop) ==
  LET e == viewer.effects[i]
  IN /\ e.listening
     /\ scrollTop # viewer.scrollTop
     /\ viewer' = ScrollEffect(viewer,
                     HandlePageChange([viewer EXCEPT !.scrollTop = scrollTop], e,
                                      ClampedPage(scrollTop)))
     /\ RestoreLog([name |-> "scroll", args |-> <<scrollTop>>])
     /\ UNCHANGED pageTracker

\* A scroll event reaches the handler of run i.
ScrollEvent(i, scrollTop) ==
  LET e == viewer.effects[i]
      scrolled == [viewer EXCEPT !.scrollTop = scrollTop]
  IN /\ e.listening
     /\ scrollTop # viewer.scrollTop
     /\ viewer' = IF ~e.hasRestoredPage /\ e.initialPage # Null /\ e.initialPage > 1
                  THEN scrolled
                  ELSE ScrollEffect(viewer,
                         HandlePageChange(scrolled, e, ClampedPage(scrollTop)))
     /\ RestoreLog([name |-> "scroll", args |-> <<scrollTop>>])
     /\ UNCHANGED pageTracker

\* The container scrolls while no run of the effect has a listener on it.
ScrollUnobserved(scrollTop) ==
  /\ viewer.storageReady
  /\ \A i \in DOMAIN viewer.effects : ~viewer.effects[i].listening
  /\ scrollTop # viewer.scrollTop
  /\ viewer' = [viewer EXCEPT !.scrollTop = scrollTop]
  /\ RestoreLog([name |-> "scrollUnobserved", args |-> <<scrollTop>>])
  /\ UNCHANGED pageTracker

\* Unmount: the cleanup of the last run of the scroll tracking effect.
ViewerUnmount ==
  /\ viewer.storageReady
  /\ ~viewer.unmounted
  /\ viewer' = [viewer EXCEPT !.unmounted = TRUE, !.effects = EffectCleanup(@)]
  /\ RestoreLog([name |-> "unmountViewer", args |-> <<>>])
  /\ UNCHANGED pageTracker

(***************************************************************************)
(* PageObserver (src/unnamed/part_003).  A render queues the effects whose *)
(* dependencies changed; they run one at a time, cleanups first.           *)
(***************************************************************************)
ObserverLog(o) ==
  /\ ComponentLog(o)
  /\ UNCHANGED <<hook, store, burst, pageTracker, viewer, hybridLoader, storageService>>

AllSettled == \A o \in Observers : observers[o].pending = <<>>

\* Mount: no entry yet, so the report effect does nothing.
ObserverMount(o, pageNumber) ==
  /\ AllSettled
  /\ ~observers[o].mounted
  /\ observers' = [observers EXCEPT ![o] =
                     [NoObserver EXCEPT !.mounted = TRUE, !.pageNumber = pageNumber]]
  /\ ObserverLog([name |-> "mountObserver", args |-> <<pageNumber>>])

\* useInView delivers an entry with another intersectionRatio or position.
ObserverEntry(o, ratio, centerDistance) ==
  LET entry == <<[ratio |-> ratio, centerDistance |-> centerDistance]>>
  IN /\ AllSettled
     /\ observers[o].mounted
     /\ observers[o].entry # entry
     /\ observers' = [observers EXCEPT ![o].entry = entry, ![o].pending = <<"report">>]
     /\ ObserverLog([name |-> "entry", args |-> <<ratio, centerDistance>>])

\* The pageNumber prop changes: the cleanup for the old number, then the
\* report effect with the entry the observer has.
ObserverPageNumber(o, pageNumber) ==
  /\ AllSettled
  /\ observers[o].mounted
  /\ observers[o].pageNumber # pageNumber
  /\ observers' = [observers EXCEPT
                     ![o].pageNumber = pageNumber,
                     ![o].unregister = observers[o].pageNumber,
                     ![o].pending = IF observers[o].entry = <<>>
                                    THEN <<"cleanup">> ELSE <<"cleanup", "report">>]
  /\ ObserverLog([name |-> "pageNumber", args |-> <<pageNumber>>])

ObserverUnmount(o) ==
  /\ AllSettled
  /\ observers[o].mounted
  /\ observers' = [observers EXCEPT ![o].mounted = FALSE,
                                    ![o].unregister = observers[o].pageNumber,
                                    ![o].pending = <<"cleanup">>]
  /\ ObserverLog([name |-> "unmountObserver", args |-> <<observers[o].pageNumber>>])

\* scrollTracker.reportPageVisibility(pageNumber, entry.intersectionRatio, centerDistance)
ObserverReport(o) ==
  /\ observers[o].pending # <<>>
  /\ Head(observers[o].pending) = "report"
  /\ ReportPageVisibility(observers[o].pageNumber, observers[o].entry[1].ratio,
                          observers[o].entry[1].centerDistance)

\* return () => { scrollTracker.unregisterPage(pageNumber); }
ObserverCleanup(o) ==
  /\ observers[o].pending # <<>>
  /\ Head(observers[o].pending) = "cleanup"
  /\ UnregisterPage(observers[o].unregister)

(***************************************************************************)
(* HybridLoaderService (src/unnamed/part_005) and StorageService.init      *)
(* (src/src/components/PageTracker.tsx).                                   *)
(***************************************************************************)
\* A step of one of the two services.
ServiceLog(o) ==
  /\ ComponentLog(o)
  /\ UNCHANGED <<hook, store, burst, pageTracker, viewer, observers>>

\* loadFromUrl / loadFromFile up to the first await:
\* this.setState({ isLoading: true, error: null }).
LoadStarts(l) ==
  /\ hybridLoader.loads[l] # "running"
  /\ hybridLoader' = [hybridLoader EXCEPT !.isLoading = TRUE, !.error = FALSE,
                                          !.loads[l] = "running"]
  /\ ServiceLog([name |-> "load", args |-> <<l>>])
  /\ UNCHANGED storageService

\* processArrayBuffer ends: this.setState({ isLoading: false, error: null, context }).
LoadSucceeds(l) ==
  /\ hybridLoader.loads[l] = "running"
  /\ hybridLoader' = [hybridLoader EXCEPT !.isLoading = FALSE, !.error = FALSE,
                                          !.context = l, !.loads[l] = "done"]
  /\ ServiceLog([name |-> "loaded", args |-> <<l>>])
  /\ UNCHANGED storageService

\* The catch block: this.setState({ isLoading: false, error: message }).
LoadFails(l) ==
  /\ hybridLoader.loads[l] = "running"
  /\ hybridLoader' = [hybridLoader EXCEPT !.isLoading = FALSE, !.error = TRUE,
                                          !.loads[l] = "failed"]
  /\ ServiceLog([name |-> "loadFailed", args |-> <<l>>])
  /\ UNCHANGED storageService

\* init without "if (this.initPromise) return this.initPromise;".
StorageInitUnshared(c) ==
  /\ storageService.inits[c] # "waiting"
  /\ storageService' =
       IF storageService.db
       THEN [storageService EXCEPT !.inits[c] = "resolved"]
       ELSE [storageService EXCEPT !.initPromise = "pending",
                                   !.opens = Min(@ + 1, 2),
                                   !.inits[c] = "waiting"]
  /\ ServiceLog([name |-> "init", args |-> <<c>>])
  /\ UNCHANGED hybridLoader

\* A call of init(): nothing when this.db is set, the promise of the open
\* under way (or of the open that failed) when there is one, else
\* indexedDB.open inside a new promise.
StorageInit(c) ==
  /\ storageService.inits[c] # "waiting"
  /\ storageService' =
       IF storageService.db
       THEN [storageService EXCEPT !.inits[c] = "resolved"]
       ELSE IF storageService.initPromise # "none"
       THEN [storageService EXCEPT !.inits[c] = IF storageService.initPromise = "pending"
                                                THEN "waiting"
                                                ELSE storageService.initPromise]
       ELSE [storageService EXCEPT !.initPromise = "pending",
                                   !.opens = Min(@ + 1, 2),
                                   !.inits[c] = "waiting"]
  /\ ServiceLog([name |-> "init", args |-> <<c>>])
  /\ UNCHANGED hybridLoader

\* request.onsuccess: this.db = request.result; resolve().
OpenSucceeds ==
  /\ storageService.initPromise = "pending"
  /\ storageService' = [storageService EXCEPT !.db = TRUE, !.initPromise = "resolved"]
  /\ ServiceLog([name |-> "opened", args |-> <<>>])
  /\ UNCHANGED hybridLoader

\* request.onerror: reject(request.error).
OpenFails ==
  /\ storageService.initPromise = "pending"
  /\ storageService' = [storageService EXCEPT !.initPromise = "rejected"]
  /\ ServiceLog([name |-> "openFailed", args |-> <<>>])
  /\ UNCHANGED hybridLoader

\* The promise an init call returned is settled: the caller goes on.
InitSettles(c) ==
  /\ storageService.inits[c] = "waiting"
  /\ storageService.initPromise \in {"resolved", "rejected"}
  /\ storageService' = [storageService EXCEPT !.inits[c] = storageService.initPromise]
  /\ ServiceLog([name |-> "initSettled", args |-> <<c>>])
  /\ UNCHANGED hybridLoader

(***************************************************************************)
(* Specifications.                                                         *)
(***************************************************************************)
PageNumbers == 1..MaxPage
Ratios == {0, 50}
Distances == (0..MaxDistance) \cup {Infinity}

InitTracker == Init /\ keepers = {} /\ recording = FALSE

\* The tracker and its subscribers.
Next ==
  \/ \E p \in {1, 2}, r \in {45, 50} : ReportPageVisibility(p, r, Infinity)
  \/ \E p \in {1, 2} : UnregisterPage(p)
  \/ Reset
  \/ SetView(9, 55)
  \/ SetTotalPages(3)
  \/ \E s \in {150, 990} : UpdateFromScroll(s, 100, 3)
  \/ \E l \in Listeners : Subscribe(l)
  \/ \E l \in Listeners : Dispose(l)

Spec == InitTracker /\ [][Next]_vars

\* Visibility reports only: the best-page selection over the whole map.
NextSelect ==
  \/ \E p \in PageNumbers, r \in Ratios, d \in Distances : ReportPageVisibility(p, r, d)
  \/ \E p \in PageNumbers : UnregisterPage(p)
  \/ Reset

SpecSelect == InitTracker /\ [][NextSelect]_vars

\* A document longer than the initial totalPages.
NextDocument ==
  \/ \E p \in {1, 5, 24}, r \in {50, 100} : ReportPageVisibility(p, r, 0)
  \/ \E p \in {1, 5, 24} : UnregisterPage(p)
  \/ \E p \in {24, 42} : SetView(p, 0)
  \/ SetTotalPages(41)
  \/ Reset

SpecDocument == InitTracker /\ [][NextDocument]_vars

\* Explicit navigation: setView with pages and progress values on both sides
\* of the valid ranges.
NextSetView ==
  \/ \E p \in {0, 2, 3, 9}, v \in {-20, 55, 130} : SetView(p, v)
  \/ \E n \in {1, 3} : SetTotalPages(n)
  \/ ReportPageVisibility(2, 50, Infinity)
  \/ \E l \in Listeners : Subscribe(l)
  \/ \E l \in Listeners : Dispose(l)

SpecSetView == InitTracker /\ [][NextSetView]_vars

\* A consumer that keeps the views it is given and writes to them.
InitConsumers == Init /\ keepers = {1} /\ recording = FALSE

NextConsumers ==
  \/ \E p \in {1, 2} : ReportPageVisibility(p, 50, Infinity)
  \/ SetView(2, 0)
  \/ Initialize
  \/ \E l \in Listeners : Subscribe(l)
  \/ \E c \in keepers : ConsumerGet(c)
  \/ \E c \in keepers : ConsumerReadWindow(c)
  \/ \E c \in keepers : ConsumerMutate(c, 0)

SpecConsumers == InitConsumers /\ [][NextConsumers]_vars

\* A viewport scrolling over the boundary between two consecutive pages: the
\* PageObserver of each page reports its ratio and centre distance, a page
\* that unmounts is unregistered.
ScrollPages == {MaxPage, MaxPage + 1}
ScrollRatios == {0, 30, 70, 100}

InitScroll == Init /\ keepers = {} /\ recording = TRUE

NextScroll ==
  \/ \E p \in ScrollPages, r \in ScrollRatios, d \in {0, Infinity} :
       ReportPageVisibility(p, r, d)
  \/ \E p \in ScrollPages : UnregisterPage(p)
  \/ \E n \in {MaxPage + 1, MaxPage + 3} : SetTotalPages(n)

SpecScroll == InitScroll /\ [][NextScroll]_vars

\* The deprecated scroll-based path, with arguments on both sides of its
\* guard and of the page range, next to a visibility report.
NextLegacy ==
  \/ \E scrollTop \in {-50, 150, 2300}, pageHeight \in {0, 100}, total \in {0, 3, 41} :
       UpdateFromScroll(scrollTop, pageHeight, total)
  \/ ReportPageVisibility(2, 50, Infinity)
  \/ SetView(9, 0)
  \/ \E l \in Listeners : Subscribe(l)
  \/ \E l \in Listeners : Dispose(l)

SpecLegacy == InitTracker /\ [][NextLegacy]_vars

\* One instance of useStorage: mounting, source changes, page updates in
\* bursts and pauses, unmounting.
NextStorage ==
  \/ Mount
  \/ InitializeResolves
  \/ InitializeFails
  \/ ChangeSource
  \/ Unmount
  \/ \E page \in 1..(MaxPage + 1) : UpdatePage(page)
  \/ TimerFires
  \/ WriteCompletes
  \/ Tick(250)

SpecStorage == InitTracker /\ [][NextStorage]_vars

\* Subscribers whose callbacks call setView from inside a notification.
NextReentrant ==
  \/ \E p \in {1, 2}, l \in Listeners, q \in {1, 3} : SetViewReentrant(p, 0, l, q)
  \/ \E p \in {1, 2}, l \in Listeners :
       ReportPageVisibilityReentrant(p, 50, Infinity, l, 3)
  \/ \E p \in {1, 2} : ReportPageVisibility(p, 50, Infinity)
  \/ SetView(2, 50)
  \/ \E l \in Listeners : Subscribe(l)
  \/ \E l \in Listeners : Dispose(l)

SpecReentrant == InitTracker /\ [][NextReentrant]_vars

\* Subscribers whose callbacks throw.
NextThrowing ==
  \/ \E p \in {1, 2}, l \in Listeners : SetViewThrowing(p, 0, l)
  \/ \E p \in {1, 2}, l \in Listeners : ReportPageVisibilityThrowing(p, 50, Infinity, l)
  \/ \E p \in {1, 2} : ReportPageVisibility(p, 50, Infinity)
  \/ SetView(2, 50)
  \/ \E l \in Listeners : Subscribe(l)
  \/ \E l \in Listeners : Dispose(l)

SpecThrowing == InitTracker /\ [][NextThrowing]_vars

\* Stored pages: none, the first page, a page of the document, a page beyond it.
StoredPages == {Null, 1, 2, maxPages + 1}

\* Session restore: one PageTracker and one PDFViewer from mount on.
NextRestore ==
  \/ \E ready \in BOOLEAN, page \in StoredPages : PageTrackerProps(ready, page)
  \/ \E total \in {0, maxPages} : ScrollCapabilityProvided(total)
  \/ DocumentLoaded
  \/ RestoreTimer
  \/ \E stored \in StoredPages : ViewerMount(stored)
  \/ \E i \in DOMAIN viewer.effects, found \in BOOLEAN : SetupScrollTracking(i, found)
  \/ \E i \in DOMAIN viewer.effects : RestoreDelay(i)
  \/ \E i \in DOMAIN viewer.effects, scrollTop \in {0, pageHeightEstimate, MaxScrollTop} :
       ScrollEvent(i, scrollTop)

SpecRestore == InitTracker /\ [][NextRestore]_vars

\* One PDFViewer from mount to unmount and after it.
NextViewer ==
  \/ \E stored \in StoredPages : ViewerMount(stored)
  \/ \E i \in DOMAIN viewer.effects, found \in BOOLEAN : SetupScrollTracking(i, found)
  \/ \E i \in DOMAIN viewer.effects : RestoreDelay(i)
  \/ \E i \in DOMAIN viewer.effects, scrollTop \in {0, pageHeightEstimate, MaxScrollTop} :
       ScrollEvent(i, scrollTop)
  \/ \E scrollTop \in {0, pageHeightEstimate, MaxScrollTop} : ScrollUnobserved(scrollTop)
  \/ ViewerUnmount

SpecViewer == InitTracker /\ [][NextViewer]_vars

\* The timers of the effect run, and a retry finds the scroll container in
\* the end.
SpecViewerLive ==
  /\ SpecViewer
  /\ WF_vars(\E i \in DOMAIN viewer.effects : SetupScrollTracking(i, TRUE))
  /\ WF_vars(\E i \in DOMAIN viewer.effects : RestoreDelay(i))

\* Loads of the one HybridLoaderService, overlapping or not.
NextLoader ==
  \/ \E l \in Loads : LoadStarts(l)
  \/ \E l \in Loads : LoadSucceeds(l)
  \/ \E l \in Loads : LoadFails(l)

SpecLoader == InitTracker /\ [][NextLoader]_vars

\* Callers of StorageService.init and the open request.
NextStorageInit ==
  \/ \E c \in Callers : StorageInit(c)
  \/ OpenSucceeds
  \/ OpenFails
  \/ \E c \in Callers : InitSettles(c)

SpecStorageInit == InitTracker /\ [][NextStorageInit]_vars

\* PageObservers mounting, seeing their page, changing page and unmounting.
NextObservers ==
  \/ \E o \in Observers, p \in {1, 2} : ObserverMount(o, p)
  \/ \E o \in Observers, r \in {30, 70} : ObserverEntry(o, r, 0)
  \/ \E o \in Observers, p \in {1, 2} : ObserverPageNumber(o, p)
  \/ \E o \in Observers : ObserverUnmount(o)
  \/ \E o \in Observers : ObserverReport(o)
  \/ \E o \in Observers : ObserverCleanup(o)

SpecObservers == InitTracker /\ [][NextObservers]_vars

(***************************************************************************)
(* Properties.                                                             *)
(***************************************************************************)
Reported == op.name = "reportPageVisibility"

\* Entry i of the map has the maximum ratio and, among the entries with that
\* ratio, the minimum centerDistance.
IsBest(m, i) ==
  \A j \in DOMAIN m :
    /\ m[j].ratio <= m[i].ratio
    /\ m[j].ratio = m[i].ratio => m[i].centerDistance <= m[j].centerDistance

\* C1 as stated: after every reportPageVisibility call, currentView.pageNumber
\* is a page of the map with the maximum ratio and, among the pages tied on
\* it, the minimum centerDistance.
C1_PageIsBestInMap ==
  Reported =>
    \E i \in DOMAIN pageVisibilities :
      /\ pageVisibilities[i].page = View.pageNumber
      /\ IsBest(pageVisibilities, i)

\* C1 (amended): after every reportPageVisibility call, currentView.pageNumber
\* is the page with the maximum ratio, ties on the ratio broken by the minimum
\* centerDistance and ties on both by the earliest insertion into the map,
\* except that it is the fallback page 1 when the maximum ratio is 0 and no
\* page with ratio 0 has a finite centerDistance.
C1_BestPageOrFallback ==
  Reported =>
    LET m == pageVisibilities
        i == CHOOSE k \in DOMAIN m :
               IsBest(m, k) /\ \A j \in 1..(k - 1) : ~IsBest(m, j)
    IN IF m[i].ratio = 0 /\ m[i].centerDistance = Infinity
       THEN View.pageNumber = 1
       ELSE View.pageNumber = m[i].page

\* Two pages are tied on the maximum ratio and the one inserted later, which
\* is closer to the centre, is the current page.
C1_Witness ==
  /\ Reported
  /\ \E i, j \in DOMAIN pageVisibilities :
       /\ i < j
       /\ IsBest(pageVisibilities, j)
       /\ pageVisibilities[i].ratio = pageVisibilities[j].ratio
       /\ pageVisibilities[j].centerDistance < pageVisibilities[i].centerDistance
       /\ View.pageNumber = pageVisibilities[j].page

\* C2 as stated: in every reachable state the published currentView has
\* 1 <= pageNumber <= totalPages.
C2_PageWithinTotal ==
  /\ 1 <= View.pageNumber
  /\ View.pageNumber <= View.totalPages

\* round(n / d) for d > 0, a tie going up.
RoundRatio(n, d) == (2 * n + d) \div (2 * d)

\* C3 as stated: in every reachable state documentProgress is 0 when the
\* view's totalPages <= 1 and round(100 * (pageNumber - 1) / (totalPages - 1))
\* / 100 otherwise.
C3_DocumentProgressFormula ==
  View.documentProgress =
    IF View.totalPages <= 1 THEN 0
    ELSE RoundRatio(100 * (View.pageNumber - 1), View.totalPages - 1)

Notifying == {"reportPageVisibility", "setView", "updateFromScroll"}

\* C4: a reportPageVisibility call whose recomputed (pageNumber,
\* viewportProgress, documentProgress) equals the stored values calls no
\* listener, leaves currentView as it is (its totalPages field included) and
\* does not write window.Engram.currentView; a call that changes one of the
\* three values calls every registered listener once.
C4_ChangeSuppression ==
  [][op'.name = "reportPageVisibility" =>
       IF Triple(View') = Triple(View)
       THEN calls' = NoCalls /\ synced' = 0 /\ View' = View
       ELSE \A l \in Range(listeners) : Len(calls'[l]) = 1]_vars

\* A report with a subscriber registered was suppressed, and currentView
\* still carries the total of an earlier publication.
C4_Witness ==
  /\ Reported
  /\ listeners # <<>>
  /\ calls = NoCalls
  /\ synced = 0
  /\ View.totalPages # totalPages

\* C5 as stated: of two identical reports in a row, the first one notifies
\* every subscriber exactly once and the second one notifies nobody.
C5_ExactlyOneNotification ==
  (Reported /\ repeated /\ listeners # <<>>) =>
    /\ prevCalls = Len(listeners)
    /\ SumLen(calls, NListeners) = 0

\* C5 (amended): of two identical reports in a row the second one notifies
\* nobody and writes no snapshot; the first one notifies either every
\* subscriber once or nobody.
C5_SecondReportSilent ==
  (Reported /\ repeated) =>
    /\ SumLen(calls, NListeners) = 0
    /\ synced = 0
    /\ prevCalls \in {0, Len(listeners)}

\* The first of two identical reports notified a subscriber, the second did not.
C5_Witness ==
  /\ Reported
  /\ repeated
  /\ listeners # <<>>
  /\ prevCalls = Len(listeners)
  /\ calls = NoCalls

\* C6: subscribe calls the new listener exactly once, within the call, with a
\* view equal to currentView, and calls no other listener.
C6_SubscribeDeliversCurrentView ==
  op.name = "subscribe" =>
    /\ op.args[1] \in Range(listeners)
    /\ calls = [NoCalls EXCEPT ![op.args[1]] = <<View>>]

\* A listener subscribed after reports had changed the view and received it.
C6_Witness ==
  /\ op.name = "subscribe"
  /\ pageVisibilities # <<>>
  /\ Triple(View) # Triple(InitialView)
  /\ calls[op.args[1]] = <<View>>

\* C7: a disposer removes its listener and no other; reportPageVisibility,
\* setView and updateFromScroll call no listener that is not registered.
C7_DisposedNeverCalled ==
  [][/\ op'.name = "dispose" =>
          Range(listeners') = Range(listeners) \ {op'.args[1]}
     /\ op'.name \in Notifying =>
          \A l \in Listeners : calls'[l] # <<>> => l \in Range(listeners)]_vars

\* A change was delivered to a registered listener and not to one whose
\* disposer had been called.
C7_Witness ==
  /\ op.name \in Notifying
  /\ \E l \in disposers \ Range(listeners) : calls[l] = <<>>
  /\ \E l \in Range(listeners) : calls[l] = <<View>>

\* C8: every change of currentView made by reportPageVisibility, setView or
\* updateFromScroll is delivered once to every registered listener, as a view
\* equal to the new currentView.
C8_ChangeDeliveredToAll ==
  [][(op'.name \in Notifying /\ View' # View) =>
       \A l \in Range(listeners') : calls'[l] = <<View'>>]_vars

\* Two listeners were registered and both received the new view.
C8_Witness ==
  /\ op.name \in Notifying
  /\ Len(listeners) >= 2
  /\ \A l \in Range(listeners) : calls[l] = <<View>>

\* C9: a consumer writing to a view it holds (from getCurrentView, from a
\* callback or from window.Engram.currentView) does not change the tracker's
\* currentView, and getCurrentView returns a view equal to it afterwards.
C9_ViewsAreCopies ==
  [][/\ op'.name = "mutate" => View' = View
     /\ op'.name = "getCurrentView" =>
          View' = View /\ heap'[held'[op'.args[1]]] = View]_vars

\* A consumer has written to the view it holds and the tracker's view differs.
C9_Witness ==
  /\ op.name = "mutate"
  /\ heap[held[op.args[1]]].pageNumber = op.args[2]
  /\ View.pageNumber # op.args[2]
  /\ Triple(View) # Triple(InitialView)

\* x clamped into [lo, hi].
Clamp(x, lo, hi) == IF x < lo THEN lo ELSE IF x > hi THEN hi ELSE x

\* C10: setView(pageNumber, viewportProgress) always sets currentView to the
\* page clamped into [1, totalPages], the progress rounded to a 10% step and
\* clamped into [0, 1], the documentProgress of that page and totalPages, and
\* always calls every listener once with it and writes the global snapshot.
C10_SetViewAlwaysPublishes ==
  op.name = "setView" =>
    LET page == Clamp(op.args[1], 1, totalPages)
    IN /\ View = CurrentView(page, Clamp((op.args[2] + 5) \div 10, 0, 10),
                             DocumentProgress(page, totalPages), totalPages)
       /\ \A l \in Listeners :
            calls[l] = IF l \in Range(listeners) THEN <<View>> ELSE <<>>
       /\ synced = 1
       /\ heap[windowView] = View

\* setView was called twice in a row with the same arguments and the second
\* call notified the subscribers again.
C10_Witness ==
  /\ op.name = "setView"
  /\ repeated
  /\ listeners # <<>>
  /\ prevCalls = Len(listeners)
  /\ \A l \in Range(listeners) : calls[l] = <<View>>

\* C11 as stated: on a 4-page document setView(3, 0.55) yields
\* viewportProgress 0.5 and documentProgress 0.67.
C11_SetViewRoundTrip ==
  (op = [name |-> "setView", args |-> <<3, 55>>] /\ totalPages = 4) =>
    /\ View.viewportProgress = 5
    /\ View.documentProgress = 67

\* C11 (amended): on a 4-page document setView(3, 0.55) yields page 3,
\* viewportProgress 0.6 (Math.round(5.5) is 6) and documentProgress 0.67.
C11_SetViewRoundsHalfUp ==
  (op = [name |-> "setView", args |-> <<3, 55>>] /\ totalPages = 4) =>
    /\ View.pageNumber = 3
    /\ View.viewportProgress = 6
    /\ View.documentProgress = 67

\* setView(3, 0.55) has returned on a 4-page document.
C11_Witness ==
  /\ op = [name |-> "setView", args |-> <<3, 55>>]
  /\ totalPages = 4
  /\ View = CurrentView(3, 6, 67, 4)

\* The view held by window.Engram.currentView, Free when it is undefined.
Snapshot == IF windowView = Null THEN Free ELSE heap[windowView]

\* C12: reset() empties pageVisibilities, sets currentView to page 1 with
\* both progress values 0 and the tracker's totalPages, writes that view to
\* window.Engram.currentView, leaves totalPages and the listeners as they are
\* and calls no listener.
C12_ResetFrame ==
  [][op'.name = "reset" =>
       /\ pageVisibilities' = <<>>
       /\ View' = CurrentView(1, 0, 0, totalPages)
       /\ Snapshot' = View'
       /\ synced' = 1
       /\ totalPages' = totalPages
       /\ listeners' = listeners
       /\ calls' = NoCalls]_vars

\* reset() has returned with a listener registered and a totalPages other
\* than the initial one.
C12_Witness ==
  /\ op.name = "reset"
  /\ listeners # <<>>
  /\ totalPages # InitialTotalPages
  /\ View = CurrentView(1, 0, 0, totalPages)
  /\ Snapshot = View

\* C13 as stated: whenever reportPageVisibility, setView or updateFromScroll
\* calls a listener, window.Engram.currentView already holds the view the
\* listener is given.
C13_SnapshotCurrentAtCallback ==
  (op.name \in Notifying /\ calls # NoCalls) => ~staleRead

\* C14: unregisterPage(p) deletes the entry of p and nothing else: the other
\* entries keep their values and order, currentView, totalPages,
\* window.Engram.currentView and the listeners are unchanged, and no listener
\* is called.
C14_UnregisterFrame ==
  [][op'.name = "unregisterPage" =>
       /\ pageVisibilities' = SelectSeq(pageVisibilities,
                                        LAMBDA e : e.page # op'.args[1])
       /\ View' = View
       /\ Snapshot' = Snapshot
       /\ totalPages' = totalPages
       /\ listeners' = listeners
       /\ synced' = 0
       /\ calls' = NoCalls]_vars

\* The current page, which is not page 1, has been unregistered while another
\* page is in the map and a listener is registered.
C14_Witness ==
  /\ op.name = "unregisterPage"
  /\ op.args[1] = View.pageNumber
  /\ View.pageNumber # 1
  /\ View.viewportProgress > 0
  /\ pageVisibilities # <<>>
  /\ \A i \in DOMAIN pageVisibilities : pageVisibilities[i].page # op.args[1]
  /\ listeners # <<>>
  /\ calls = NoCalls

C16_SetTotalPagesFrame ==
  [][op'.name = "setTotalPages" =>
       /\ totalPages' = op'.args[1]
       /\ View' = View
       /\ pageVisibilities' = pageVisibilities
       /\ Snapshot' = Snapshot
       /\ listeners' = listeners
       /\ synced' = 0
       /\ calls' = NoCalls]_vars

\* setTotalPages has returned and currentView still carries the old total
\* and a documentProgress computed against it.
C16_Witness ==
  /\ op.name = "setTotalPages"
  /\ View.totalPages # totalPages
  /\ View.documentProgress # DocumentProgress(View.pageNumber, totalPages)
  /\ Snapshot = View
  /\ listeners # <<>>

\* C17 as stated: the reportPageVisibility or setView call that follows
\* setTotalPages(n) leaves currentView.totalPages = n and documentProgress
\* computed against n.
C17_NextCallPicksUpTotal ==
  [][(op.name = "setTotalPages"
      /\ op'.name \in {"reportPageVisibility", "setView"})
     => /\ View'.totalPages = op.args[1]
        /\ View'.documentProgress = DocumentProgress(View'.pageNumber, op.args[1])]_vars

\* C18: after a report no page of the map that has a strictly lower ratio
\* than another page of the map is the current page, whatever the centre
\* distances are.
C18_LowerRatioNeverSelected ==
  Reported =>
    \A i, j \in DOMAIN pageVisibilities :
      pageVisibilities[i].ratio < pageVisibilities[j].ratio =>
        View.pageNumber # pageVisibilities[i].page

\* The page just reported has a positive ratio lower than the current page's
\* and is nearer to the centre; the current page has stayed.
C18_Witness ==
  /\ Reported
  /\ \E i, j \in DOMAIN pageVisibilities :
       /\ pageVisibilities[i].page = op.args[1]
       /\ 0 < pageVisibilities[i].ratio
       /\ pageVisibilities[i].ratio < pageVisibilities[j].ratio
       /\ pageVisibilities[i].centerDistance < pageVisibilities[j].centerDistance
       /\ View.pageNumber = pageVisibilities[j].page

\* C19: after a report, when two or more pages are tied on the maximum ratio
\* and one of them has a centerDistance strictly smaller than all the others
\* tied with it, that page is the current page, wherever it stands in the
\* order of insertion.
C19_TieGoesToNearest ==
  Reported =>
    \A i \in DOMAIN pageVisibilities :
      (/\ IsBest(pageVisibilities, i)
       /\ \E j \in DOMAIN pageVisibilities \ {i} :
            pageVisibilities[j].ratio = pageVisibilities[i].ratio
       /\ \A j \in DOMAIN pageVisibilities \ {i} :
            pageVisibilities[j].ratio = pageVisibilities[i].ratio =>
              pageVisibilities[i].centerDistance < pageVisibilities[j].centerDistance)
      => View.pageNumber = pageVisibilities[i].page

\* Two pages are tied on a positive maximum ratio; the page just reported,
\* inserted later, is farther from the centre, and the earlier page is current.
C19_Witness ==
  /\ Reported
  /\ \E i, j \in DOMAIN pageVisibilities :
       /\ i < j
       /\ pageVisibilities[j].page = op.args[1]
       /\ IsBest(pageVisibilities, i)
       /\ pageVisibilities[i].ratio > 0
       /\ pageVisibilities[j].ratio = pageVisibilities[i].ratio
       /\ pageVisibilities[i].centerDistance < pageVisibilities[j].centerDistance
       /\ View.pageNumber = pageVisibilities[i].page

\* A report of page q in a forward scroll over the boundary between two
\* consecutive pages: either q is the later page and its ratio increases, or
\* q is the earlier page and its ratio decreases; the viewport shows a page
\* after the report.
ForwardScrollStep ==
  LET q == op'.args[1]
      r == op'.args[2]
      m == pageVisibilities
  IN /\ op.name = "reportPageVisibility"
     /\ op'.name = "reportPageVisibility"
     /\ \E i \in DOMAIN pageVisibilities' : pageVisibilities'[i].ratio > 0
     /\ \/ /\ \A i \in DOMAIN m : m[i].page = q => m[i].ratio < r
           /\ \A i \in DOMAIN m : m[i].page # q => m[i].page = q - 1
        \/ /\ \E i \in DOMAIN m : m[i].page = q /\ m[i].ratio > r
           /\ \A i \in DOMAIN m : m[i].page # q => m[i].page = q + 1

\* C20: in a forward scroll over the boundary between pages N-1 and N, with
\* totalPages fixed, documentProgress never decreases from one report to the
\* next, the report after which page N is current included.
C20_ProgressNonDecreasing ==
  [][ForwardScrollStep => View'.documentProgress >= View.documentProgress]_vars

\* A report that followed a report has moved the current page from N-1 to N,
\* both pages visible, and documentProgress has grown.
C20_Witness ==
  /\ Reported
  /\ prior.name = "reportPageVisibility"
  /\ View.pageNumber = prior.view.pageNumber + 1
  /\ View.documentProgress > prior.view.documentProgress
  /\ \E i, j \in DOMAIN pageVisibilities :
       /\ pageVisibilities[i].page = prior.view.pageNumber
       /\ pageVisibilities[j].page = View.pageNumber
       /\ 0 < pageVisibilities[i].ratio
       /\ pageVisibilities[i].ratio < pageVisibilities[j].ratio

\* C21 as stated: in every reachable state documentProgress lies in [0, 1].
C21_DocumentProgressInUnitRange ==
  /\ 0 <= View.documentProgress
  /\ View.documentProgress <= 100

\* C22: updateFromScroll with pageHeight <= 0 or totalPages <= 0 changes
\* nothing: currentView, the tracker's totalPages, the map and
\* window.Engram.currentView are as before and no listener is called.
C22_GuardedScrollIsNoOp ==
  [][(op'.name = "updateFromScroll" /\ (op'.args[2] <= 0 \/ op'.args[3] <= 0)) =>
       /\ View' = View
       /\ totalPages' = totalPages
       /\ pageVisibilities' = pageVisibilities
       /\ Snapshot' = Snapshot
       /\ listeners' = listeners
       /\ synced' = 0
       /\ calls' = NoCalls]_vars

\* updateFromScroll has returned from a call with a positive pageHeight and
\* totalPages 0, a listener registered, the view not the one the scroll
\* position would give.
C22_Witness ==
  /\ op.name = "updateFromScroll"
  /\ op.args[2] > 0
  /\ op.args[3] = 0
  /\ totalPages > 0
  /\ View.pageNumber > 1
  /\ listeners # <<>>
  /\ calls = NoCalls

\* floor(n / d) for d > 0.
FloorRatio(n, d) == IF n >= 0 THEN n \div d ELSE -((d - 1 - n) \div d)

\* C23 as stated: for pageHeight > 0 and totalPages > 0, when updateFromScroll
\* finds the page clamp(floor(scrollTop / pageHeight) + 1, 1, totalPages), the
\* intra-page position clamped to [0, 1] and rounded to a 10% step, and the
\* documentProgress of the standard formula equal to the stored values it
\* calls no listener and leaves the view; otherwise it publishes them to
\* every listener.
C23_ScrollFormula ==
  [][(op'.name = "updateFromScroll" /\ op'.args[2] > 0 /\ op'.args[3] > 0) =>
       LET scrollTop == op'.args[1]
           pageHeight == op'.args[2]
           total == op'.args[3]
           page == Clamp(FloorRatio(scrollTop, pageHeight) + 1, 1, total)
           position == scrollTop - (page - 1) * pageHeight
           progress == RoundRatio(10 * Clamp(position, 0, pageHeight), pageHeight)
           document == IF total <= 1 THEN 0
                       ELSE RoundRatio(100 * (page - 1), total - 1)
       IN IF <<page, progress, document>> = Triple(View)
          THEN View' = View /\ calls' = NoCalls
          ELSE /\ View' = CurrentView(page, progress, document, total)
               /\ \A l \in Listeners :
                    calls'[l] = IF l \in Range(listeners) THEN <<View'>> ELSE <<>>]_vars

\* C24: on a new tracker currentView is page 1 with both progress values 0;
\* getCurrentView called first returns such a view, and initialize called
\* first leaves window.Engram.currentView holding it.
C24_InitialView ==
  [][op.name = "new" =>
       /\ Triple(View) = <<1, 0, 0>>
       /\ op'.name = "getCurrentView" =>
            Triple(heap'[held'[op'.args[1]]]) = <<1, 0, 0>>
       /\ op'.name = "initialize" =>
            Snapshot' = View' /\ Triple(Snapshot') = <<1, 0, 0>>]_vars

\* initialize has run on a tracker on which nothing else has happened, and
\* the global snapshot holds the initial view.
C24_Witness ==
  /\ op.name = "initialize"
  /\ initialized
  /\ pageVisibilities = <<>>
  /\ disposers = {}
  /\ \A c \in Listeners : held[c] = Null
  /\ View = InitialView
  /\ Snapshot = InitialView

(***************************************************************************)
(* useStorage: the debounced save.                                         *)
(***************************************************************************)
\* The hook is quiet: the debounce delay has passed since the last updatePage
\* call of an initialized document, nothing is pending or being written, and
\* no cleanup has cleared the save of that call.
Quiet ==
  /\ hook.documentId # Null
  /\ burst.lastCall # Null
  /\ burst.sinceCall >= SAVE_DEBOUNCE_MS
  /\ hook.timers = <<>>
  /\ store.writes = <<>>
  /\ ~burst.cancelled

\* C25: after a burst of updatePage calls for an initialized document and a
\* quiet period longer than the debounce delay, the persistence layer holds
\* the page passed to the last updatePage call of the burst, also when that
\* page equals the page most recently saved.
C25_LastPagePersisted == Quiet => store.currentPage = burst.lastCall

\* C26: a burst of updatePage calls, each arriving less than SAVE_DEBOUNCE_MS
\* after the previous one, starts at most one write to the persistence layer.
C26_AtMostOneWritePerBurst == burst.started <= 1

\* C27: after the cleanup of the init effect has run, no save scheduled by an
\* updatePage call made before it starts a write to the persistence layer.
C27_NoSaveAfterCleanup ==
  [][op'.name = "saveStarted" =>
       \A i \in DOMAIN hook.timers :
         hook.timers[i].stale => hook.timers[i] \in Range(hook'.timers)]_vars

\* The cleanup cleared the pending save of the last call, the debounce delay
\* has passed, and the page of that call was not written.
C27_Witness ==
  /\ burst.cancelled
  /\ burst.lastCall # Null
  /\ burst.sinceCall >= SAVE_DEBOUNCE_MS
  /\ hook.timers = <<>>
  /\ store.writes = <<>>
  /\ store.currentPage # burst.lastCall

(***************************************************************************)
(* Session restore.                                                        *)
(***************************************************************************)
\* C28: session restore issues its scroll command at most once per session:
\* after PageTracker has called scrollToPage, and after PDFViewer has called
\* scrollTo for the stored page, no change of props or readiness, no render
\* and no scroll event makes it issue the command again.
C28_RestoresAtMostOnce ==
  /\ pageTracker.restores <= 1
  /\ viewer.restores <= 1

\* PageTracker has restored and its restore effect has run again with a page
\* to restore; PDFViewer has restored, a later run of its effect tracks and a
\* scroll has saved another page.
C28_Witness ==
  /\ pageTracker.restores = 1
  /\ op.name \in {"props", "scrollCapability"}
  /\ pageTracker.storageReady
  /\ pageTracker.initialPage # Null
  /\ pageTracker.initialPage > 1
  /\ pageTracker.initialPage # pageTracker.target
  /\ viewer.restores = 1
  /\ \E i \in DOMAIN viewer.effects :
       /\ viewer.effects[i].stage = "tracking"
       /\ viewer.effects[i].initialPage = Null
       /\ viewer.localStorage # (viewer.target \div pageHeightEstimate) + 1

\* C29: a stored page beyond the page count of the document is clamped into
\* [1, totalPages] and the restore navigates to the clamped page: no command
\* goes beyond the last page, and the restore is not left out.
C29_RestoreClamps ==
  /\ (pageTracker.restores > 0 /\ pageTracker.totalPages > 0)
       => pageTracker.target \in 1..pageTracker.totalPages
  /\ ( /\ pageTracker.storageReady
       /\ pageTracker.isReady
       /\ pageTracker.totalPages > 0
       /\ pageTracker.initialPage > pageTracker.totalPages
       /\ ~pageTracker.hasRestoredRef )
       => pageTracker.timer = pageTracker.totalPages
  /\ viewer.restores > 0
       => (viewer.target \div pageHeightEstimate) + 1 \in 1..maxPages

(***************************************************************************)
(* PageObserver and the map of visible pages.                              *)
(***************************************************************************)
\* The page numbers of the mounted observers and of the observers whose
\* cleanup has yet to run.
MountedPages ==
  {observers[o].pageNumber : o \in {x \in Observers : observers[x].mounted}}
    \cup {observers[o].unregister :
            o \in {x \in Observers : "cleanup" \in Range(observers[x].pending)}}

\* C30: when a PageObserver for page p unmounts or changes its page number,
\* unregisterPage(p) leaves no entry for p in pageVisibilities, and the map
\* only holds entries for pages of mounted observers.
C30_ForgetsUnmountedPages ==
  [][ /\ \A i \in DOMAIN pageVisibilities' :
           pageVisibilities'[i].page \in MountedPages'
      /\ op'.name = "unregisterPage"
           => \A i \in DOMAIN pageVisibilities' :
                pageVisibilities'[i].page # op'.args[1] ]_vars

\* An observer that had reported has unmounted and its page is gone from the
\* map, which still holds the page of another observer.
C30_Witness ==
  /\ op.name = "unregisterPage"
  /\ AllSettled
  /\ pageVisibilities # <<>>
  /\ \E o \in Observers :
       /\ ~observers[o].mounted
       /\ observers[o].entry # <<>>
       /\ observers[o].pageNumber = op.args[1]

(***************************************************************************)
(* The fallback of best-page selection.                                    *)
(***************************************************************************)
\* Every entry of the map has ratio 0 and an infinite centerDistance.
NothingVisible ==
  \A i \in DOMAIN pageVisibilities :
    /\ pageVisibilities[i].ratio = 0
    /\ pageVisibilities[i].centerDistance = Infinity

\* C31: best-page selection starts from page 1 with ratio 0 and an infinite
\* distance: after a reportPageVisibility that leaves only entries with ratio
\* 0 and infinite centerDistance in the map, currentView.pageNumber is 1,
\* whether or not page 1 has an entry.
C31_FallbackPageOne == (Reported /\ NothingVisible) => View.pageNumber = 1

\* The report moved the view from another page to page 1, which has no entry.
C31_Witness ==
  /\ Reported
  /\ NothingVisible
  /\ pageVisibilities # <<>>
  /\ \A i \in DOMAIN pageVisibilities : pageVisibilities[i].page # 1
  /\ prior.name = "reportPageVisibility"
  /\ prior.view.pageNumber # 1
  /\ View.pageNumber = 1

(***************************************************************************)
(* Subscribers that call the tracker or throw from their callback.         *)
(***************************************************************************)
\* C32: when a subscriber callback calls reportPageVisibility or setView from
\* inside a notification, the nested call is handled as if queued: once the
\* outermost call has returned, the last view given to every registered
\* subscriber has the pageNumber, viewportProgress and documentProgress of
\* currentView, so no subscriber is given an older view after a newer one.
C32_LastDeliveredIsCurrent ==
  op.name \in Notifying =>
    \A l \in Range(listeners) :
      calls[l] # <<>> => Triple(calls[l][Len(calls[l])]) = Triple(View)

\* C33: when the callback of one subscriber throws during a notification,
\* the other registered subscribers are notified all the same and
\* window.Engram.currentView ends up equal to currentView.
C33_ThrowingSubscriberIsolated ==
  (op.name \in Notifying /\ calls # NoCalls) =>
    /\ \A l \in Range(listeners) : calls[l] # <<>>
    /\ Snapshot = View

(***************************************************************************)
(* PDFViewer: saving the page while and after the position is restored.    *)
(***************************************************************************)
\* A stored page above 1 has been read and restoration is not marked complete.
RestorePending ==
  /\ viewer.storageReady
  /\ ~viewer.unmounted
  /\ viewer.initialPage # Null
  /\ viewer.initialPage > 1

\* C34: while session restore is pending in the viewer, no scroll event (and
\* no other step) writes a page to storage: the stored page is unchanged
\* until restoration is marked complete.
C34_NoSaveWhileRestoring ==
  [][RestorePending => viewer'.localStorage = viewer.localStorage]_vars

\* During the restore a scroll event showed another page than the stored one
\* and the stored page was left alone.
C34_Witness ==
  /\ RestorePending
  /\ op.name = "scroll"
  /\ \E i \in DOMAIN viewer.effects : viewer.effects[i].stage = "restoring"
  /\ ClampedPage(viewer.scrollTop) # viewer.localStorage
  /\ viewer.localStorage = viewer.initialPage

\* Storage is ready and no restore is pending.
RestoreComplete ==
  /\ viewer.storageReady
  /\ viewer.initialPage = Null \/ viewer.initialPage <= 1

Persisted == viewer.localStorage = ClampedPage(viewer.scrollTop)

\* C35: once storage is ready and restoration is complete, a scroll to another
\* page is persisted in the end, also when it comes right after a page was
\* saved: the stored page becomes the page computed from the scroll position
\* (as long as the viewer stays mounted).
C35_ScrollEventuallyPersisted ==
  (RestoreComplete /\ ~Persisted) ~> (Persisted \/ viewer.unmounted)

\* A page was saved, the container scrolled to another page while the effect
\* was waiting to set up tracking again, and tracking then saved that page.
C35_Witness ==
  /\ RestoreComplete
  /\ ~viewer.unmounted
  /\ op.name = "setupScrollTracking"
  /\ Persisted
  /\ viewer.localStorage \notin {Null, 1}
  /\ viewer.restores = 0

\* C36: after the scroll tracking effect of the viewer has been torn down,
\* none of its timers attaches a scroll listener or writes a page to storage.
C36_NothingAfterTeardown ==
  [][viewer.unmounted =>
       /\ viewer'.localStorage = viewer.localStorage
       /\ \A i \in DOMAIN viewer'.effects : ~viewer'.effects[i].listening]_vars

(***************************************************************************)
(* useStorage: initialisation and the source option.                       *)
(***************************************************************************)
\* C37: the hook initializes again when its source changes: whenever the hook
\* is mounted and its initialization has completed, documentId (and with it
\* progress and highlights) is that of the current source.
C37_DocumentFollowsSource ==
  (hook.mounted = "yes" /\ hook.initialize = "done") => hook.documentId = hook.source

(***************************************************************************)
(* The loader's isLoading flag and the opening of the database.            *)
(***************************************************************************)
\* C38: isLoading is true exactly while a load is in progress: with two
\* overlapping loads it stays true until both have completed, and it is
\* false once no load is in flight.
C38_IsLoadingWhileInFlight ==
  hybridLoader.isLoading = (\E l \in Loads : hybridLoader.loads[l] = "running")

\* C39: StorageService.init opens the database at most once: init calls made
\* while the open is under way share its promise, and init calls made after
\* the open succeeded return without opening again.
C39_OpensAtMostOnce == storageService.opens <= 1

\* The database is open after one open request; an init call made after the
\* open has returned, and another call had shared the pending promise.
C39_Witness ==
  /\ storageService.db
  /\ storageService.opens = 1
  /\ op.name = "init"
  /\ storageService.inits[op.args[1]] = "resolved"
  /\ \E c \in Callers \ {op.args[1]} : storageService.inits[c] = "waiting"
  /\ \E c \in Callers \ {op.args[1]} : storageService.inits[c] = "resolved"

(***************************************************************************)
(* updateFromScroll and the tracker's totalPages.                          *)
(***************************************************************************)
\* C40: updateFromScroll with valid arguments assigns its totalPages argument
\* to the tracker's totalPages whether or not it publishes, and a later
\* reportPageVisibility that publishes and a later setView compute
\* documentProgress, the view's totalPages and (setView) the clamped page
\* from the tracker's totalPages.
C40_ScrollOverwritesTotalPages ==
  [][/\ (op'.name = "updateFromScroll" /\ op'.args[2] > 0 /\ op'.args[3] > 0)
          => totalPages' = op'.args[3]
     /\ (op'.name \in {"reportPageVisibility", "setView"} /\ synced' = 1)
          => /\ totalPages' = totalPages
             /\ heap'[currentView'].totalPages = totalPages
             /\ heap'[currentView'].documentProgress =
                  DocumentProgress(heap'[currentView'].pageNumber, totalPages)
     /\ op'.name = "setView"
          => heap'[currentView'].pageNumber = Max(1, Min(op'.args[1], totalPages))]_vars

\* updateFromScroll has run with valid arguments and published nothing, and
\* the tracker's totalPages is its argument, not that of the current view.
C40_Witness ==
  /\ op.name = "updateFromScroll"
  /\ op.args[2] > 0
  /\ op.args[3] > 0
  /\ synced = 0
  /\ totalPages = op.args[3]
  /\ heap[currentView].totalPages # totalPages
====
